---- MODULE Spec2Model ----
(***************************************************************************)
(* A model of the image-harmonization networks of PA3/models/networks.py   *)
(* and PA3/models/normalize.py.  Every component is a small state machine: *)
(* the object's fields are variables, a call of a method is one action.    *)
(* Tensors are finite sequences of integers (fixed-point values); 1 and 0  *)
(* are the two values of a binary mask.                                    *)
(*                                                                         *)
(* Each component has a specification of its own (Spec_processImage,       *)
(* Spec_PartialConv2d, ...); the variables of the other components keep    *)
(* their initial value under it.                                           *)
(***************************************************************************)
EXTENDS Integers, Sequences, FiniteSets, TLC

VARIABLES
    \* RainNet.processImage
    pi_input_nc, pi_x, pi_mask, pi_hasbg, pi_background, pi_pred, pi_out, pi_pc,
    \* PartialConv2d: the convolution's own fields, the three cache fields of
    \* lines 615-617 and the last forward call with what it returned
    pc_conv, last_size, update_mask, mask_ratio, pc_call,
    \* cal_gradient_penalty: the arguments of the last call, how it ended, what it
    \* returned and what it did on the way
    gp_args, gp_status, gp_result, gp_trace,
    \* get_norm_layer, GANLoss, define_G, define_D: the last call, how it ended
    \* and the object it handed back
    ct_call, ct_status, ct_object,
    \* the discriminators: which class was built, the OrgDiscriminator instance,
    \* the 1x1 convolutions of NLayerDiscriminator, the last forward call, how it
    \* ended, its local tensors and what it returned
    d_class, d_D, d_head, d_call, d_status, d_locals, d_result,
    \* the discriminators, continued: the mask cache of every PartialConv2d
    \* instance of the OrgDiscriminator, and the cache entry each convolution of
    \* the global branch worked with in the last forward call
    d_cache, d_global,
    \* RainNet: the norm_type_indicator the network was built with, the mask of
    \* the last forward call, how the call ended, the normalization layers it
    \* invoked in order and the layer whose invocation raised (0: none)
    g_indicator, g_mask, g_status, g_calls, g_raised_at,
    \* RainNet, continued: the constructor's other arguments, the shape of the
    \* last input, and of the last forward call the convolutions it ran, the
    \* skip concatenations, the attention gates and the shape of what it returned
    g_conf, g_x, g_convs, g_cats, g_gates, g_outshape,
    \* GANLoss.__call__: the mode the loss object was built with, the last call,
    \* how it ended, the target tensor it materialized and the loss it returned
    gl_mode, gl_call, gl_status, gl_target, gl_loss,
    \* RAIN: eps as 1/rn_epsinv, the four affine vectors, whether init_weights
    \* reached the layer, whether load_state_dict ever replaced the vectors, the last forward call, how it ended, the resized
    \* foreground mask and the background mask, the statistics of the two
    \* regions and the output
    rn_epsinv, rn_params, rn_inited, rn_loaded, rn_call, rn_status, rn_masks, rn_stats, rn_out

piVars == <<pi_input_nc, pi_x, pi_mask, pi_hasbg, pi_background, pi_pred, pi_out, pi_pc>>

pcVars == <<pc_conv, last_size, update_mask, mask_ratio, pc_call>>

gpVars == <<gp_args, gp_status, gp_result, gp_trace>>

ctVars == <<ct_call, ct_status, ct_object>>

dVars == <<d_class, d_D, d_head, d_call, d_status, d_locals, d_result, d_cache, d_global>>

gVars == <<g_indicator, g_mask, g_status, g_calls, g_raised_at,
          g_conf, g_x, g_convs, g_cats, g_gates, g_outshape>>

glVars == <<gl_mode, gl_call, gl_status, gl_target, gl_loss>>

rnVars == <<rn_epsinv, rn_params, rn_inited, rn_loaded, rn_call, rn_status, rn_masks, rn_stats, rn_out>>

vars == <<piVars, pcVars, gpVars, ctVars, dVars, gVars, glVars, rnVars>>

\* what a component's actions leave alone: the variables of the other components
piFrame == <<pcVars, gpVars, ctVars, dVars, gVars, glVars, rnVars>>
pcFrame == <<piVars, gpVars, ctVars, dVars, gVars, glVars, rnVars>>
gpFrame == <<piVars, pcVars, ctVars, dVars, gVars, glVars, rnVars>>
ctFrame == <<piVars, pcVars, gpVars, dVars, gVars, glVars, rnVars>>
dFrame == <<piVars, pcVars, gpVars, ctVars, gVars, glVars, rnVars>>
gFrame == <<piVars, pcVars, gpVars, ctVars, dVars, glVars, rnVars>>
glFrame == <<piVars, pcVars, gpVars, ctVars, dVars, gVars, rnVars>>
rnFrame == <<piVars, pcVars, gpVars, ctVars, dVars, gVars, glVars>>

(***************************************************************************)
(* Tensor helpers.  An image is a sequence of channels, a channel a        *)
(* sequence of pixels (batch and the two spatial axes flattened).          *)
(***************************************************************************)
\* number of pixel positions of an image of the processImage model
MaxPix == 2

Pixels == 1..MaxPix

BinaryMasks(n) == [1..n -> {0, 1}]

\* torch.cat([a, b], dim=1)
CatChannels(a, b) == a \o b

\* x[:, :3, :, :]
FirstThree(x) == SubSeq(x, 1, 3)

\* a * mask + b * (1 - mask), the mask broadcast over the channels
Composite(a, mask, b) ==
    [c \in 1..Len(a) |-> [p \in 1..Len(mask) |->
        a[c][p] * mask[p] + b[c][p] * (1 - mask[p])]]

(***************************************************************************)
(* Exact fractions <<numerator, denominator>> in lowest terms, for the     *)
(* quotient slide_winsize / update_mask of PartialConv2d.                  *)
(***************************************************************************)
RECURSIVE GCD(_, _)
GCD(a, b) == IF b = 0 THEN a ELSE GCD(b, a % b)

Abs(a) == IF a < 0 THEN -a ELSE a

Rat(n, d) == LET g == GCD(Abs(n), d) IN <<n \div g, d \div g>>

RatInt(n) == <<n, 1>>

RatMul(a, b) == Rat(a[1] * b[1], a[2] * b[2])

RatAdd(a, b) == Rat(a[1] * b[2] + b[1] * a[2], a[2] * b[2])

RatSub(a, b) == RatAdd(a, <<-b[1], b[2]>>)

RECURSIVE SumSeq(_)
SumSeq(s) == IF s = <<>> THEN 0 ELSE Head(s) + SumSeq(Tail(s))

Ones(n) == [i \in 1..n |-> 1]

Zeros(n) == [i \in 1..n |-> 0]

(***************************************************************************)
(* PartialConv2d.  The model runs the layer on inputs of shape [1,1,1,W]   *)
(* with a kernel (1,k), stride (1,s), padding (0,p), dilation (1,d) and    *)
(* multi_channel left at its default False: one row of the convolution.    *)
(***************************************************************************)
MaxW == 3
MaxK == 3
Paddings == {0, 1}
Strides == {1, 2}
Dilations == {1, 2}

\* the denominator of the stabiliser 1e-8 of line 641
EpsInv == 100000000

\* the spatial size of the output of F.conv2d; below 1 the convolution raises
OutLen(w, k, s, p, d) ==
    LET span == w + 2 * p - d * (k - 1) - 1
    IN  IF span < 0 THEN 0 ELSE span \div s + 1

\* zero padding of one row
Pad(x, p) == Zeros(p) \o x \o Zeros(p)

\* F.conv2d / nn.Conv2d.forward on one row: cross-correlation plus bias
Conv1d(x, weight, bias, s, p, d) ==
    LET xp == Pad(x, p)
        k == Len(weight)
    IN  [j \in 1..OutLen(Len(x), k, s, p, d) |->
            bias + SumSeq([i \in 1..k |-> weight[i] * xp[(j - 1) * s + (i - 1) * d + 1]])]

\* torch.clamp(v, 0, 1)
Clamp01(v) == IF v < 0 THEN 0 ELSE IF v > 1 THEN 1 ELSE v

\* line 641, slide_winsize / (update_mask + 1e-8), in the float32 arithmetic of
\* the tensors: a count of 1 or more absorbs the 1e-8, a count of 0 leaves it
RatioRaw(winsize, count) ==
    IF count = 0 THEN RatInt(winsize * EpsInv) ELSE Rat(winsize, count)

\* lines 612-613 with weight_maskUpdater of shape (1, 1, 1, k): a slip that
\* counts one position too many
SlideWinsize_off(conv) == conv.kernel_size + 1

\* lines 612-613 with weight_maskUpdater of shape (1, 1, 1, k)
SlideWinsize(conv) == 1 * 1 * conv.kernel_size

\* line 615-617: the cache of a new instance
FreshCache == [last_size |-> <<>>, update_mask |-> <<>>, mask_ratio |-> <<>>]

Shape(input) == <<1, 1, 1, Len(input)>>

\* line 621
Recompute(cache, input, mask_given) == mask_given \/ cache.last_size # Shape(input)

\* lines 628-636
MaskUsed(input, mask_given, mask_in) == IF mask_given THEN mask_in ELSE Ones(Len(input))

\* lines 621-643: the cache after the call
CacheAfter(conv, cache, input, mask_given, mask_in) ==
    IF ~Recompute(cache, input, mask_given) THEN cache
    ELSE IF OutLen(Len(input), conv.kernel_size, conv.stride, conv.padding, conv.dilation) < 1
         THEN [cache EXCEPT !.last_size = Shape(input)]   \* line 638 raised
    ELSE LET counts == Conv1d(MaskUsed(input, mask_given, mask_in), Ones(conv.kernel_size), 0,
                              conv.stride, conv.padding, conv.dilation)
             um == [j \in 1..Len(counts) |-> Clamp01(counts[j])]
             ratio == [j \in 1..Len(counts) |->
                          RatMul(RatioRaw(SlideWinsize(conv), counts[j]), RatInt(um[j]))]
         IN  [last_size |-> Shape(input), update_mask |-> um, mask_ratio |-> ratio]

\* line 646
RawOut(conv, input, mask_given, mask_in) ==
    Conv1d(IF mask_given THEN [i \in 1..Len(input) |-> input[i] * mask_in[i]] ELSE input,
           conv.weight, IF conv.has_bias THEN conv.bias ELSE 0,
           conv.stride, conv.padding, conv.dilation)

\* lines 648-653 without line 651, the final product with update_mask
Output_keepbias(conv, cache, input, mask_given, mask_in) ==
    LET raw_out == RawOut(conv, input, mask_given, mask_in)
    IN  [j \in 1..Len(raw_out) |->
            IF conv.has_bias
            THEN RatAdd(RatMul(RatInt(raw_out[j] - conv.bias), cache.mask_ratio[j]),
                        RatInt(conv.bias))
            ELSE RatMul(RatInt(raw_out[j]), cache.mask_ratio[j])]

\* lines 648-653 on the cache the call left
Output(conv, cache, input, mask_given, mask_in) ==
    LET raw_out == RawOut(conv, input, mask_given, mask_in)
    IN  [j \in 1..Len(raw_out) |->
            IF conv.has_bias
            THEN RatMul(RatAdd(RatMul(RatInt(raw_out[j] - conv.bias), cache.mask_ratio[j]),
                               RatInt(conv.bias)),
                        RatInt(cache.update_mask[j]))
            ELSE RatMul(RatInt(raw_out[j]), cache.mask_ratio[j])]

\* PartialConv2d.forward: the cache it leaves and what it returns
Forward(conv, cache, input, mask_given, mask_in) ==
    LET after == CacheAfter(conv, cache, input, mask_given, mask_in)
        raised == OutLen(Len(input), conv.kernel_size, conv.stride, conv.padding, conv.dilation) < 1
    IN  [cache |-> after,
         status |-> IF raised THEN "raised" ELSE "returned",
         output |-> IF raised THEN <<>> ELSE Output(conv, after, input, mask_given, mask_in),
         mask |-> IF raised THEN <<>> ELSE after.update_mask]

\* nn.Conv2d.forward with the same weights and bias
PlainConv(conv, input) ==
    LET y == Conv1d(input, conv.weight, IF conv.has_bias THEN conv.bias ELSE 0,
                    conv.stride, conv.padding, conv.dilation)
    IN  [j \in 1..Len(y) |-> RatInt(y[j])]

\* one input row per width, its values all different and none zero
Inputs == {[i \in 1..w |-> 1 + 2 * i] : w \in 1..MaxW}

NoCall == [input |-> <<>>, mask_given |-> FALSE, mask_in |-> <<>>, fresh |-> FALSE,
           status |-> "none", output |-> <<>>, mask |-> <<>>]

PC_Idle ==
    /\ pc_conv = [kernel_size |-> 1, stride |-> 1, padding |-> 0, dilation |-> 1,
                  weight |-> <<1>>, has_bias |-> FALSE, bias |-> 0]
    /\ last_size = <<>>
    /\ update_mask = <<>>
    /\ mask_ratio = <<>>
    /\ pc_call = NoCall

\* PartialConv2d.__init__
PC_Init ==
    /\ \E k \in 1..MaxK, s \in Strides, p \in Paddings, d \in Dilations, hb \in BOOLEAN :
        pc_conv = [kernel_size |-> k, stride |-> s, padding |-> p, dilation |-> d,
                   weight |-> [i \in 1..k |-> i + 1], has_bias |-> hb,
                   bias |-> IF hb THEN 5 ELSE 0]
    /\ last_size = FreshCache.last_size
    /\ update_mask = FreshCache.update_mask
    /\ mask_ratio = FreshCache.mask_ratio
    /\ pc_call = NoCall

Cache == [last_size |-> last_size, update_mask |-> update_mask, mask_ratio |-> mask_ratio]

\* the record kept of a call: its arguments, whether the instance was new, and
\* what forward returned
PC_Call(input, mask_given, mask_in) ==
    LET r == Forward(pc_conv, Cache, input, mask_given, mask_in)
    IN  [input |-> input, mask_given |-> mask_given, mask_in |-> mask_in,
         fresh |-> (last_size = <<>>),
         status |-> r.status, output |-> r.output, mask |-> r.mask]

\* forward(input, mask_in) with an explicit binary mask
forward_mask ==
    \E input \in Inputs : \E m \in BinaryMasks(Len(input)) :
        /\ last_size' = CacheAfter(pc_conv, Cache, input, TRUE, m).last_size
        /\ update_mask' = CacheAfter(pc_conv, Cache, input, TRUE, m).update_mask
        /\ mask_ratio' = CacheAfter(pc_conv, Cache, input, TRUE, m).mask_ratio
        /\ pc_call' = PC_Call(input, TRUE, m)
        /\ UNCHANGED <<pc_conv, pcFrame>>

\* forward(input) with the mask omitted
forward_nomask ==
    \E input \in Inputs :
        /\ last_size' = CacheAfter(pc_conv, Cache, input, FALSE, <<>>).last_size
        /\ update_mask' = CacheAfter(pc_conv, Cache, input, FALSE, <<>>).update_mask
        /\ mask_ratio' = CacheAfter(pc_conv, Cache, input, FALSE, <<>>).mask_ratio
        /\ pc_call' = PC_Call(input, FALSE, <<>>)
        /\ UNCHANGED <<pc_conv, pcFrame>>

(***************************************************************************)
(* cal_gradient_penalty.  A batch holds MaxBatch samples of two elements   *)
(* each (channels and positions flattened).  alpha is a multiple of        *)
(* 1 / AlphaDen, and the interpolated batch is kept multiplied by AlphaDen *)
(* so that it stays an integer.  netD in its gp mode is a linear map       *)
(* sample |-> w . sample, whose gradient with respect to the sample is w.  *)
(***************************************************************************)
MaxBatch == 2
AlphaDen == 4

Elems == 1..2

\* torch.rand: a value of [0, 1) per batch element, in units of 1 / AlphaDen
AlphaVals == 0..(AlphaDen - 1)

GPTypes == {"real", "fake", "mixed", "Mixed", "bogus"}
Lambdas == {-1, 0, 1, 10}
Constants == {1}
NetDWeights == {<<3, 4>>, <<0, 1>>}

Batch(base) == [b \in 1..MaxBatch |-> [e \in Elems |-> base + 10 * b + e]]

RealBases == {100, 150}
FakeBases == {200}

\* a slip of line 248: the weight 0 taken for an active penalty
GP_Active_incl0(lambda_gp) == lambda_gp >= 0

\* line 248
GP_Active(lambda_gp) == lambda_gp > 0

\* a slip of lines 249-259: an unknown kind falling back to 'mixed'
GP_Known_default(type) == TRUE

\* lines 249-259: the kinds that do not reach the raise
GP_Known(type) == type \in {"real", "fake", "mixed"}

\* lines 249-257 with the two weights of line 257 exchanged
Interpolates_swapped(type, alpha, real_data, fake_data) ==
    IF type = "real" THEN [b \in 1..MaxBatch |-> [e \in Elems |-> AlphaDen * real_data[b][e]]]
    ELSE IF type = "fake" THEN [b \in 1..MaxBatch |-> [e \in Elems |-> AlphaDen * fake_data[b][e]]]
    ELSE IF type = "mixed" THEN [b \in 1..MaxBatch |-> [e \in Elems |->
            (AlphaDen - alpha[b]) * real_data[b][e] + alpha[b] * fake_data[b][e]]]
    ELSE <<>>

\* lines 249-257, times AlphaDen
Interpolates(type, alpha, real_data, fake_data) ==
    IF type = "real" THEN [b \in 1..MaxBatch |-> [e \in Elems |-> AlphaDen * real_data[b][e]]]
    ELSE IF type = "fake" THEN [b \in 1..MaxBatch |-> [e \in Elems |-> AlphaDen * fake_data[b][e]]]
    ELSE IF type = "mixed" THEN [b \in 1..MaxBatch |-> [e \in Elems |->
            alpha[b] * real_data[b][e] + (AlphaDen - alpha[b]) * fake_data[b][e]]]
    ELSE <<>>   \* line 259: no interpolatesv is bound

\* the tensors on which line 260 sets requires_grad
Touched(type) ==
    IF type = "real" THEN {"real_data"} ELSE IF type = "fake" THEN {"fake_data"} ELSE {}

\* the integer square root of a perfect square
ISqrt(n) == CHOOSE r \in 0..n : r * r = n

\* (gradients + 1e-16).norm(2, dim=1) of line 267; the gradients are integers,
\* where floating point absorbs the 1e-16
GradNorm(g) == ISqrt(SumSeq([e \in Elems |-> g[e] * g[e]]))

\* line 267: the mean over the batch of (norm - constant)^2, times lambda_gp
Penalty(gradients, constant, lambda_gp) ==
    (SumSeq([b \in 1..MaxBatch |-> (GradNorm(gradients[b]) - constant) * (GradNorm(gradients[b]) - constant)])
        \div MaxBatch) * lambda_gp

NoTrace == [netD_called |-> FALSE, grad_computed |-> FALSE, touched |-> {},
            interpolatesv |-> <<>>]

NoResult == [penalty |-> 0, has_gradients |-> FALSE, gradients |-> <<>>]

NoArgs == [real_data |-> <<>>, fake_data |-> <<>>, type |-> "", lambda_gp |-> 0,
           constant |-> 0, netD |-> <<>>, alpha |-> <<>>]

GP_Init ==
    /\ gp_args = NoArgs
    /\ gp_status = "none"
    /\ gp_result = NoResult
    /\ gp_trace = NoTrace

\* cal_gradient_penalty(netD, real_data, fake_data, device, type, constant, lambda_gp, mask)
CalGradientPenalty(netD, real_data, fake_data, type, constant, lambda_gp, alpha) ==
    /\ gp_args' = [real_data |-> real_data, fake_data |-> fake_data, type |-> type, lambda_gp |-> lambda_gp, constant |-> constant,
                   netD |-> netD, alpha |-> alpha]
    /\ IF ~GP_Active(lambda_gp)
       THEN \* line 270
            /\ gp_status' = "returned"
            /\ gp_result' = NoResult
            /\ gp_trace' = NoTrace
       ELSE IF ~GP_Known(type)
       THEN \* line 259
            /\ gp_status' = "raised"
            /\ gp_result' = NoResult
            /\ gp_trace' = NoTrace
       ELSE \* lines 260-268
            LET gradients == [b \in 1..MaxBatch |-> netD]
            IN  /\ gp_status' = "returned"
                /\ gp_result' = [penalty |-> Penalty(gradients, constant, lambda_gp),
                                 has_gradients |-> TRUE, gradients |-> gradients]
                /\ gp_trace' = [netD_called |-> TRUE, grad_computed |-> TRUE,
                                touched |-> Touched(type),
                                interpolatesv |-> Interpolates(type, alpha, real_data, fake_data)]
    /\ UNCHANGED gpFrame

cal_gradient_penalty ==
    \E netD \in NetDWeights, rb \in RealBases, fb \in FakeBases, type \in GPTypes,
       constant \in Constants, lambda_gp \in Lambdas :
        \* line 254 draws alpha in the 'mixed' branch only
        \E alpha \in (IF type = "mixed" /\ GP_Active(lambda_gp)
                       THEN [1..MaxBatch -> AlphaVals] ELSE {<<>>}) :
            CalGradientPenalty(netD, Batch(rb), Batch(fb), type, constant, lambda_gp, alpha)

(***************************************************************************)
(* Model assembly: get_norm_layer, GANLoss.__init__, define_G, define_D.   *)
(* A name is a sequence of characters, so that str.lower and               *)
(* str.startswith do what they do in the code.                             *)
(***************************************************************************)
UpperCase == <<"A", "B", "C", "D", "E", "F", "G", "H", "I", "J", "K", "L", "M",
               "N", "O", "P", "Q", "R", "S", "T", "U", "V", "W", "X", "Y", "Z">>

LowerCase == <<"a", "b", "c", "d", "e", "f", "g", "h", "i", "j", "k", "l", "m",
               "n", "o", "p", "q", "r", "s", "t", "u", "v", "w", "x", "y", "z">>

LowerChar(c) ==
    IF \E i \in 1..Len(UpperCase) : UpperCase[i] = c
    THEN LowerCase[CHOOSE i \in 1..Len(UpperCase) : UpperCase[i] = c]
    ELSE c

\* str.lower
Lower(name) == [i \in 1..Len(name) |-> LowerChar(name[i])]

\* str.startswith
StartsWith(name, prefix) ==
    Len(name) >= Len(prefix) /\ SubSeq(name, 1, Len(prefix)) = prefix

s_batch == <<"b", "a", "t", "c", "h">>
s_instance == <<"i", "n", "s", "t", "a", "n", "c", "e">>
s_none == <<"n", "o", "n", "e">>
s_rain == <<"r", "a", "i", "n">>
s_lsgan == <<"l", "s", "g", "a", "n">>
s_vanilla == <<"v", "a", "n", "i", "l", "l", "a">>
s_wgangp == <<"w", "g", "a", "n", "g", "p">>
s_rainnet == <<"r", "a", "i", "n", "n", "e", "t">>
s_basic == <<"b", "a", "s", "i", "c">>
s_n_layers == <<"n", "_", "l", "a", "y", "e", "r", "s">>
s_pixel == <<"p", "i", "x", "e", "l">>
s_normal == <<"n", "o", "r", "m", "a", "l">>
s_xavier == <<"x", "a", "v", "i", "e", "r">>
s_kaiming == <<"k", "a", "i", "m", "i", "n", "g">>
s_orthogonal == <<"o", "r", "t", "h", "o", "g", "o", "n", "a", "l">>

NormNames == {s_batch, s_instance, s_none, s_rain, <<"B", "a", "t", "c", "h">>, <<"R", "A", "I", "N", "_", "M", "e", "t", "h", "o", "d", "_", "B", "N">>,
              <<"r", "a", "i">>, <<"l", "a", "y", "e", "r">>, <<>>}
GanModes == {s_lsgan, s_vanilla, s_wgangp, <<"L", "S", "G", "A", "N">>, <<"w", "g", "a", "n">>, <<"h", "i", "n", "g", "e">>, <<>>}
GenNames == {s_rainnet, <<"R", "a", "i", "n", "N", "e", "t">>, <<"u", "n", "e", "t", "_", "2", "5", "6">>, <<"r", "e", "s", "n", "e", "t", "_", "9", "b", "l", "o", "c", "k", "s">>, <<>>}
DiscNames == {s_basic, s_n_layers, s_pixel, <<"B", "a", "s", "i", "c">>, <<"p", "a", "t", "c", "h">>, <<>>}
InitTypes == {s_normal, s_kaiming, <<"u", "n", "i", "f", "o", "r", "m">>}

NoObject == [class |-> "None", detail |-> <<>>]

Raised == [status |-> "raised", object |-> NoObject]

Returned(class, detail) == [status |-> "returned", object |-> [class |-> class, detail |-> detail]]

\* a slip of lines 32-33: an unknown kind quietly taken for the default 'instance'
GetNormLayer_default(norm_type) ==
    LET n == Lower(norm_type)
    IN  IF n = s_batch THEN Returned("BatchNorm2d", <<>>)
        ELSE IF n = s_none THEN Returned("Identity", <<>>)
        ELSE IF StartsWith(n, s_rain) THEN Returned("RAIN", <<>>)
        ELSE Returned("InstanceNorm2d", <<>>)

\* get_norm_layer, lines 23-34
GetNormLayer(norm_type) ==
    LET n == Lower(norm_type)
    IN  IF n = s_batch THEN Returned("BatchNorm2d", <<>>)
        ELSE IF n = s_instance THEN Returned("InstanceNorm2d", <<>>)
        ELSE IF n = s_none THEN Returned("Identity", <<>>)
        ELSE IF StartsWith(n, s_rain) THEN Returned("RAIN", <<>>)
        ELSE Raised

\* GANLoss.__init__, lines 183-195: detail is the loss module
GANLossInit(gan_mode) ==
    IF gan_mode = s_lsgan THEN Returned("GANLoss", <<"MSELoss">>)
    ELSE IF gan_mode = s_vanilla THEN Returned("GANLoss", <<"BCEWithLogitsLoss">>)
    ELSE IF gan_mode \in {s_wgangp} THEN Returned("GANLoss", <<"None">>)
    ELSE Raised

\* init_net / init_weights, lines 125-162, with gpu_ids = []: every network built
\* here holds a convolution, whose weight init_func sets or raises on
InitNet(net, init_type) ==
    IF init_type \in {s_normal, s_xavier, s_kaiming, s_orthogonal} THEN net ELSE Raised

\* define_G, lines 52-58: detail is the normalization layer handed to RainNet
DefineG(netG, norm, init_type) ==
    LET norm_layer == GetNormLayer(norm)
    IN  IF norm_layer.status = "raised" THEN Raised
        ELSE IF netG = s_rainnet
             THEN InitNet(Returned("RainNet", <<norm_layer.object.class>>), init_type)
        ELSE Raised

\* define_D, lines 73-83
DefineD(netD, norm, init_type) ==
    LET norm_layer == GetNormLayer(norm)
    IN  IF norm_layer.status = "raised" THEN Raised
        ELSE IF netD = s_basic
             THEN InitNet(Returned("NLayerDiscriminator", <<norm_layer.object.class>>), init_type)
        ELSE IF netD = s_n_layers
             THEN InitNet(Returned("NLayerDiscriminator", <<norm_layer.object.class>>), init_type)
        ELSE IF netD = s_pixel
             THEN InitNet(Returned("PixelDiscriminator", <<norm_layer.object.class>>), init_type)
        ELSE Raised

CT_Init ==
    /\ ct_call = [fn |-> "none", name |-> <<>>, norm |-> <<>>, init_type |-> <<>>]
    /\ ct_status = "none"
    /\ ct_object = NoObject

CT_Call(fn, name, norm, init_type) ==
    [fn |-> fn, name |-> name, norm |-> norm, init_type |-> init_type]

get_norm_layer ==
    \E norm_type \in NormNames :
        /\ ct_call' = CT_Call("get_norm_layer", norm_type, <<>>, <<>>)
        /\ ct_status' = GetNormLayer(norm_type).status
        /\ ct_object' = GetNormLayer(norm_type).object
        /\ UNCHANGED ctFrame

GANLoss ==
    \E gan_mode \in GanModes :
        /\ ct_call' = CT_Call("GANLoss", gan_mode, <<>>, <<>>)
        /\ ct_status' = GANLossInit(gan_mode).status
        /\ ct_object' = GANLossInit(gan_mode).object
        /\ UNCHANGED ctFrame

define_G ==
    \E netG \in GenNames, norm \in NormNames, init_type \in InitTypes :
        /\ ct_call' = CT_Call("define_G", netG, norm, init_type)
        /\ ct_status' = DefineG(netG, norm, init_type).status
        /\ ct_object' = DefineG(netG, norm, init_type).object
        /\ UNCHANGED ctFrame

define_D ==
    \E netD \in DiscNames, norm \in NormNames, init_type \in InitTypes :
        /\ ct_call' = CT_Call("define_D", netD, norm, init_type)
        /\ ct_status' = DefineD(netD, norm, init_type).status
        /\ ct_object' = DefineD(netD, norm, init_type).object
        /\ UNCHANGED ctFrame

(***************************************************************************)
(* OrgDiscriminator and NLayerDiscriminator.  A layer instance is named by *)
(* the attribute that first held it: <<"conv", 2>> is the object made for  *)
(* self.conv2; two attributes hold the same object iff they hold the same  *)
(* name.  The feature maps the three branches of OrgDiscriminator.forward  *)
(* produce are free values (one position, one channel); the 1x1            *)
(* convolutions of NLayerDiscriminator act on them as w * v + b.           *)
(***************************************************************************)
MaxStages == 8

\* conv1 .. conv7
NumConvs == 7

Depths == 1..NumConvs

\* norm2 .. norm6: conv1 and conv7 are followed by no normalization
NormDepths == 2..6

\* the classes get_norm_layer can hand to the discriminator
NormLayers == {"BatchNorm2d", "InstanceNorm2d", "Identity", "RAIN"}

\* lines 680, 694, 710: conv1f, conv2f/norm2f, conv3f/norm3f are the global
\* branch's own objects unless global_stages is below their depth; lines 722-758
\* build conv4f .. conv7f and norm4f .. norm6f anew whatever global_stages is
Shared(global_stages, d) ==
    \/ d = 1 /\ ~(global_stages < 1)
    \/ d = 2 /\ ~(global_stages < 2)
    \/ d = 3 /\ ~(global_stages < 3)

\* OrgDiscriminator.__init__
OrgDiscriminatorInit(norm_layer, global_stages) ==
    [global_stages |-> global_stages,
     norm_layer |-> norm_layer,
     conv |-> [d \in Depths |-> <<"conv", d>>],
     convf |-> [d \in Depths |-> IF Shared(global_stages, d) THEN <<"conv", d>> ELSE <<"convf", d>>],
     norm |-> [d \in NormDepths |-> <<"norm", d>>],
     normf |-> [d \in NormDepths |-> IF Shared(global_stages, d) THEN <<"norm", d>> ELSE <<"normf", d>>]]

\* nn.Conv2d(num_outputs, ., kernel_size=1): weight and bias on one channel
HeadParams ==
    {[convg3 |-> <<2, 1>>, convl1 |-> <<1, 0>>, convl2 |-> <<-1, 1>>, convl3 |-> <<3, -1>>],
     [convg3 |-> <<-1, 0>>, convl1 |-> <<-2, 1>>, convl2 |-> <<1, -3>>, convl3 |-> <<1, 2>>]}

NoHead == [convg3 |-> <<0, 0>>, convl1 |-> <<0, 0>>, convl2 |-> <<0, 0>>, convl3 |-> <<0, 0>>]

FeatVals == {-1, 2}

DMasks == {<<0, 1>>}

\* a 1x1 convolution
Conv1x1(wb, v) == RatAdd(RatMul(RatInt(wb[1]), v), RatInt(wb[2]))

\* nn.LeakyReLU(0.2)
LeakyReLU(v) == IF v[1] >= 0 THEN v ELSE RatMul(v, <<1, 5>>)

NoFeatures == [x |-> RatInt(0), xf |-> RatInt(0), xb |-> RatInt(0)]

\* OrgDiscriminator.forward(input, mask): the global branch (lines 761-779), then
\* line 783, then the foreground and the background branch
OrgForward(D, mask_given, mask, feats) ==
    IF D.norm_layer = "RAIN"
    THEN [status |-> "raised", at |-> "self.norm2(x)", features |-> NoFeatures, mb |-> <<>>]
    ELSE IF ~mask_given
    THEN [status |-> "raised", at |-> "1 - mask", features |-> NoFeatures, mb |-> <<>>]
    ELSE [status |-> "returned", at |-> "",
          features |-> [x |-> RatInt(feats[1]), xf |-> RatInt(feats[2]), xb |-> RatInt(feats[3])],
          mb |-> [i \in 1..Len(mask) |-> 1 - mask[i]]]

NoLocals == [x |-> RatInt(0), sim_sum |-> RatInt(0), feat_g |-> RatInt(0),
             feat_l |-> <<RatInt(0), RatInt(0)>>]

NoReturn == [kind |-> "none", items |-> <<>>]

\* lines 849-858: the locals of NLayerDiscriminator.forward
NLayerLocals(head, f) ==
    [feat_l |-> <<f.xf, f.xb>>,
     feat_g |-> f.x,
     x |-> Conv1x1(head.convg3, f.x),
     sim_sum |-> Conv1x1(head.convl3,
                    LeakyReLU(Conv1x1(head.convl2,
                        LeakyReLU(Conv1x1(head.convl1, RatMul(f.xf, f.xb))))))]

\* a slip of lines 859-863: the feature maps handed back whenever feat_loss is set
NLayerReturn_featfirst(gp, feat_loss, l) ==
    IF feat_loss THEN [kind |-> "tuple", items |-> <<l.x, l.sim_sum, l.feat_g, l.feat_l>>]
    ELSE IF ~gp THEN [kind |-> "tuple", items |-> <<l.x, l.sim_sum>>]
    ELSE [kind |-> "tensor", items |-> <<RatMul(RatAdd(l.x, l.sim_sum), <<1, 2>>)>>]

\* lines 859-863
NLayerReturn(gp, feat_loss, l) ==
    IF ~gp
    THEN IF feat_loss
         THEN [kind |-> "tuple", items |-> <<l.x, l.sim_sum, l.feat_g, l.feat_l>>]
         ELSE [kind |-> "tuple", items |-> <<l.x, l.sim_sum>>]
    ELSE [kind |-> "tensor", items |-> <<RatMul(RatAdd(l.x, l.sim_sum), <<1, 2>>)>>]

NoDCall == [fn |-> "none", shape |-> <<>>, mask_given |-> FALSE, mask |-> <<>>, gp |-> FALSE,
            feat_loss |-> FALSE]

\* the shapes of the images handed to the discriminator
DShapes == {<<1, 3, 256, 256>>, <<1, 3, 512, 512>>}

\* every PartialConv2d object an OrgDiscriminator can hold
ConvInstances == {<<"conv", d>> : d \in Depths} \cup {<<"convf", d>> : d \in Depths}

\* lines 615-617: the cache of a new PartialConv2d.  src tells which mask
\* update_mask and mask_ratio were computed from, this_pass whether that was
\* in the latest forward call of the discriminator
NewEntry == [last_size |-> <<>>, src |-> "none", this_pass |-> FALSE]

\* PartialConv2d.forward, lines 621-643, on the cache entry: mask_src is
\* "omitted" for conv(x), else the mask handed in.  The shape of the tensor a
\* layer is given is a function of the shape of the image, which stands for it.
PConvEntry(entry, shape, mask_src) ==
    IF mask_src # "omitted" \/ entry.last_size # shape
    THEN [last_size |-> shape,
          src |-> IF mask_src = "omitted" THEN "all-valid" ELSE mask_src,
          this_pass |-> TRUE]
    ELSE entry

\* at the start of a forward call every cache entry is of an earlier call
Aged(cache) == [i \in DOMAIN cache |-> [cache[i] EXCEPT !.this_pass = FALSE]]

\* the convolutions the global branch reaches: nn.Module.__call__ of a RAIN
\* layer without its mask raises at line 764, after conv2
GlobalDepths(D) == IF D.norm_layer = "RAIN" THEN 1..2 ELSE Depths

\* the PartialConv2d calls of OrgDiscriminator.forward in program order:
\* lines 762-779, then lines 785-803 and 805-823 if line 783 did not raise
ConvCalls(D, mask_given) ==
    [d \in GlobalDepths(D) |-> [inst |-> D.conv[d], mask |-> "omitted"]]
    \o (IF D.norm_layer # "RAIN" /\ mask_given
        THEN [d \in Depths |-> [inst |-> D.convf[d], mask |-> "foreground"]]
             \o [d \in Depths |-> [inst |-> D.convf[d], mask |-> "background"]]
        ELSE <<>>)

RECURSIVE RunConvs(_, _, _)
RunConvs(cache, calls, shape) ==
    IF calls = <<>> THEN cache
    ELSE RunConvs([cache EXCEPT ![Head(calls).inst] = PConvEntry(@, shape, Head(calls).mask)],
                  Tail(calls), shape)

\* the caches a forward call leaves
CachesAfter(D, cache, shape, mask_given) ==
    RunConvs(Aged(cache), ConvCalls(D, mask_given), shape)

\* the cache entry conv1 .. conv7 of the global branch worked with: the global
\* branch runs first, each of its convolutions once
GlobalEntries(D, cache, shape) ==
    [d \in GlobalDepths(D) |-> PConvEntry(Aged(cache)[D.conv[d]], shape, "omitted")]

D_Idle ==
    /\ d_class = "none"
    /\ d_D = OrgDiscriminatorInit("BatchNorm2d", 0)
    /\ d_head = NoHead
    /\ d_call = NoDCall
    /\ d_status = "none"
    /\ d_locals = NoLocals
    /\ d_result = NoReturn
    /\ d_cache = [i \in ConvInstances |-> NewEntry]
    /\ d_global = <<>>

\* OrgDiscriminator(input_nc, ndf, n_layers, norm_layer, global_stages), or
\* NLayerDiscriminator(input_nc, ndf, n_layers, norm_layer), whose line 838 builds
\* its OrgDiscriminator with global_stages left at 0
D_Init ==
    /\ \/ /\ d_class = "OrgDiscriminator"
          /\ \E nl \in NormLayers, g \in 0..MaxStages : d_D = OrgDiscriminatorInit(nl, g)
          /\ d_head = NoHead
       \/ /\ d_class = "NLayerDiscriminator"
          /\ \E nl \in NormLayers : d_D = OrgDiscriminatorInit(nl, 0)
          /\ d_head \in HeadParams
    /\ d_call = NoDCall
    /\ d_status = "none"
    /\ d_locals = NoLocals
    /\ d_result = NoReturn
    /\ d_cache = [i \in ConvInstances |-> NewEntry]
    /\ d_global = <<>>

\* OrgDiscriminator.forward(input, mask=None)
OrgDiscriminator_forward ==
    /\ d_class = "OrgDiscriminator"
    /\ \E shape \in DShapes, mask_given \in BOOLEAN, feats \in [1..3 -> FeatVals] :
       \E mask \in (IF mask_given THEN DMasks ELSE {<<>>}) :
        \E r \in {OrgForward(d_D, mask_given, mask, feats)} :
            /\ d_call' = [fn |-> "OrgDiscriminator.forward", shape |-> shape,
                          mask_given |-> mask_given,
                          mask |-> mask, gp |-> FALSE, feat_loss |-> FALSE]
            /\ d_cache' = CachesAfter(d_D, d_cache, shape, mask_given)
            /\ d_global' = GlobalEntries(d_D, d_cache, shape)
            /\ d_status' = r.status
            /\ d_locals' = NoLocals
            /\ d_result' = IF r.status = "returned"   \* line 823
                           THEN [kind |-> "tuple",
                                 items |-> <<r.features.x, r.features.xf, r.features.xb>>]
                           ELSE NoReturn
            /\ UNCHANGED <<d_class, d_D, d_head, dFrame>>

\* NLayerDiscriminator.forward(input, mask=None, gp=False, feat_loss=False)
NLayerDiscriminator_forward ==
    /\ d_class = "NLayerDiscriminator"
    /\ \E shape \in DShapes, mask_given, gp, feat_loss \in BOOLEAN, feats \in [1..3 -> FeatVals] :
       \E mask \in (IF mask_given THEN DMasks ELSE {<<>>}) :
        \E r \in {OrgForward(d_D, mask_given, mask, feats)} :   \* line 848
        \E l \in {NLayerLocals(d_head, r.features)} :
            /\ d_call' = [fn |-> "NLayerDiscriminator.forward", shape |-> shape,
                          mask_given |-> mask_given,
                          mask |-> mask, gp |-> gp, feat_loss |-> feat_loss]
            /\ d_cache' = CachesAfter(d_D, d_cache, shape, mask_given)
            /\ d_global' = GlobalEntries(d_D, d_cache, shape)
            /\ d_status' = r.status
            /\ d_locals' = IF r.status = "returned" THEN l ELSE NoLocals
            /\ d_result' = IF r.status = "returned" THEN NLayerReturn(gp, feat_loss, l) ELSE NoReturn
            /\ UNCHANGED <<d_class, d_D, d_head, dFrame>>

(***************************************************************************)
(* RainNet: the fourteen normalization layers of the generator and the     *)
(* order in which forward invokes them.  The feature maps themselves are   *)
(* left out; what is kept of a forward call is which normalization layer   *)
(* was invoked with which arguments, and whether the invocation is one the *)
(* layer's forward method accepts.                                         *)
(***************************************************************************)
\* norm_layer1 .. norm_layer14, lines 297-336
NumNorm == 14

NormIndex == 1..NumNorm

\* line 291: norm_type_list = [get_norm_layer('instance'), get_norm_layer('rain')]
NormTypeList == <<GetNormLayer(s_instance).object.class, GetNormLayer(s_rain).object.class>>

\* line 284, the default of norm_type_indicator
DefaultIndicator == <<0, 0, 0, 0, 0, 0, 0, 1, 1, 1, 1, 1, 1, 1>>

\* every vector __init__ can index norm_type_list with
Indicators == [NormIndex -> {0, 1}]

\* lines 297-336: norm_layer_i = norm_type_list[norm_type_indicator[i - 1]](...)
NormLayerClass(indicator, i) == NormTypeList[indicator[i] + 1]

\* the invocations of forward in program order: norm_layer1..6 on the feature
\* map alone (lines 365-385), norm_layer8..14 on the feature map and the mask
\* (lines 393-437); norm_layer7 is built but forward never invokes it
NormCallSites ==
    << [layer |-> 1,  with_mask |-> FALSE],    \* line 365
       [layer |-> 2,  with_mask |-> FALSE],    \* line 369
       [layer |-> 3,  with_mask |-> FALSE],    \* line 373
       [layer |-> 4,  with_mask |-> FALSE],    \* line 377
       [layer |-> 5,  with_mask |-> FALSE],    \* line 381
       [layer |-> 6,  with_mask |-> FALSE],    \* line 385
       [layer |-> 8,  with_mask |-> TRUE],     \* line 393
       [layer |-> 9,  with_mask |-> TRUE],     \* line 399
       [layer |-> 10, with_mask |-> TRUE],     \* line 405
       [layer |-> 11, with_mask |-> TRUE],     \* line 411
       [layer |-> 12, with_mask |-> TRUE],     \* line 417
       [layer |-> 13, with_mask |-> TRUE],     \* line 427
       [layer |-> 14, with_mask |-> TRUE] >>   \* line 437

\* RAIN.forward(self, x, mask) (normalize.py line 16) needs the mask,
\* InstanceNorm2d.forward(self, input) takes the feature map only: any other
\* argument list is a TypeError
NormCallAccepted(class, with_mask) ==
    IF class = "RAIN" THEN with_mask ELSE ~with_mask

\* the call sites whose invocation raises for a network built with indicator
BadSites(indicator) ==
    {k \in 1..Len(NormCallSites) :
        ~NormCallAccepted(NormLayerClass(indicator, NormCallSites[k].layer),
                          NormCallSites[k].with_mask)}

SetMin(S) == CHOOSE m \in S : \A n \in S : m <= n

\* one invocation as the trace keeps it
NormCall(indicator, k) ==
    [layer |-> NormCallSites[k].layer,
     class |-> NormLayerClass(indicator, NormCallSites[k].layer),
     with_mask |-> NormCallSites[k].with_mask]

\* RainNet.forward, lines 353-447, its normalization layers alone: the
\* invocations run in order up to the first one that raises
RainNetForward(indicator) ==
    LET bad == BadSites(indicator)
    IN  IF bad = {}
        THEN [status |-> "returned",
              calls |-> [k \in 1..Len(NormCallSites) |-> NormCall(indicator, k)],
              raised_at |-> 0]
        ELSE [status |-> "TypeError",
              calls |-> [k \in 1..(SetMin(bad) - 1) |-> NormCall(indicator, k)],
              raised_at |-> NormCallSites[SetMin(bad)].layer]

(***************************************************************************)
(* RainNet, the shapes.  A tensor of a forward call is kept as its shape   *)
(* [c, h, w] (batch 1); forward is the list of its convolutions, skip      *)
(* concatenations and attention gates in program order.                    *)
(***************************************************************************)
MaxNgf == 3

\* what __init__ is given besides the indicator
GConfs ==
    [input_nc : {3, 4}, output_nc : {1, 3}, ngf : 1..MaxNgf, use_attention : BOOLEAN]

\* lines 283-285: the defaults, with the arguments of define_G's caller
DefaultConf == [input_nc |-> 3, output_nc |-> 3, ngf |-> 64, use_attention |-> TRUE]

TShape(c, h, w) == [c |-> c, h |-> h, w |-> w]

NoShape == TShape(0, 0, 0)

\* the inputs: three and four channels, sizes that are multiples of 256 and
\* one that is not
XShapes == {TShape(3, 256, 256), TShape(3, 256, 512), TShape(3, 384, 256), TShape(4, 512, 256)}

Decl(class, in, out, k, s, p) ==
    [class |-> class, in |-> in, out |-> out, k |-> k, s |-> s, p |-> p]

\* layer0 .. layer15 as __init__ declares them, lines 294-338
LayerDecl(conf, n) ==
    LET ngf == conf.ngf
    IN  CASE n = 0  -> Decl("Conv2d", conf.input_nc, ngf, 4, 2, 1)              \* line 294
          [] n = 1  -> Decl("Conv2d", ngf, ngf * 2, 4, 2, 1)                    \* line 297
          [] n = 2  -> Decl("Conv2d", ngf * 2, ngf * 4, 4, 2, 1)                \* line 300
          [] n = 3  -> Decl("Conv2d", ngf * 4, ngf * 8, 4, 2, 1)                \* line 303
          [] n = 4  -> Decl("Conv2d", ngf * 8, ngf * 8, 4, 2, 1)                \* line 306
          [] n = 5  -> Decl("Conv2d", ngf * 8, ngf * 8, 4, 2, 1)                \* line 309
          [] n = 6  -> Decl("Conv2d", ngf * 8, ngf * 8, 4, 2, 1)                \* line 312
          [] n = 7  -> Decl("Conv2d", ngf * 8, ngf * 8, 4, 2, 1)                \* line 315
          [] n = 8  -> Decl("ConvTranspose2d", ngf * 8, ngf * 8, 4, 2, 1)       \* line 318
          [] n = 9  -> Decl("ConvTranspose2d", ngf * 16, ngf * 8, 4, 2, 1)      \* line 321
          [] n = 10 -> Decl("ConvTranspose2d", ngf * 16, ngf * 8, 4, 2, 1)      \* line 324
          [] n = 11 -> Decl("ConvTranspose2d", ngf * 16, ngf * 8, 4, 2, 1)      \* line 327
          [] n = 12 -> Decl("ConvTranspose2d", ngf * 16, ngf * 4, 4, 2, 1)      \* line 330
          [] n = 13 -> Decl("ConvTranspose2d", ngf * 8, ngf * 2, 4, 2, 1)       \* line 333
          [] n = 14 -> Decl("ConvTranspose2d", ngf * 4, ngf, 4, 2, 1)           \* line 336
          [] n = 15 -> Decl("ConvTranspose2d", 2 * ngf, conf.output_nc, 4, 2, 1) \* line 338

\* attention1 .. attention3, lines 341-346
AttentionDecl(conf, a) ==
    LET ngf == conf.ngf
    IN  CASE a = 1 -> Decl("Conv2d", 8 * ngf, 8 * ngf, 1, 1, 0)
          [] a = 2 -> Decl("Conv2d", 4 * ngf, 4 * ngf, 1, 1, 0)
          [] a = 3 -> Decl("Conv2d", 2 * ngf, 2 * ngf, 1, 1, 0)

\* the sizes with the padding of the transposed convolutions left out
ConvOutSize_nopad(decl, h) ==
    IF decl.class = "Conv2d"
    THEN IF h + 2 * decl.p < decl.k THEN 0 ELSE (h + 2 * decl.p - decl.k) \div decl.s + 1
    ELSE (h - 1) * decl.s + decl.k

\* the size a convolution gives along one axis; 0 where it raises because the
\* padded input is smaller than the kernel
ConvOutSize(decl, h) ==
    IF decl.class = "Conv2d"
    THEN IF h + 2 * decl.p < decl.k THEN 0 ELSE (h + 2 * decl.p - decl.k) \div decl.s + 1
    ELSE (h - 1) * decl.s - 2 * decl.p + decl.k

Ins(op, stage, idx, src, dst) ==
    [op |-> op, stage |-> stage, idx |-> idx, src |-> src, dst |-> dst]

\* RainNet.forward, lines 361-445, without the activations and the
\* normalization layers, neither of which changes a shape
Program ==
    << Ins("conv", 0, 0, "x", "x0"),          \* line 361
       Ins("conv", 1, 1, "x0", "x1"),         \* line 364
       Ins("conv", 2, 2, "x1", "x2"),         \* line 368
       Ins("conv", 3, 3, "x2", "x3"),         \* line 372
       Ins("conv", 4, 4, "x3", "x4"),         \* line 376
       Ins("conv", 5, 5, "x4", "x5"),         \* line 380
       Ins("conv", 6, 6, "x5", "x6"),         \* line 384
       Ins("conv", 7, 7, "x6", "x7"),         \* line 388
       Ins("conv", 8, 8, "x7", "out"),        \* line 391
       Ins("cat", 8, 0, "x6", "out"),         \* line 394
       Ins("conv", 9, 9, "out", "out"),       \* line 397
       Ins("cat", 9, 0, "x5", "out"),         \* line 400
       Ins("conv", 10, 10, "out", "out"),     \* line 403
       Ins("cat", 10, 0, "x4", "out"),        \* line 406
       Ins("conv", 11, 11, "out", "out"),     \* line 409
       Ins("cat", 11, 0, "x3", "out"),        \* line 412
       Ins("conv", 12, 12, "out", "out"),     \* line 415
       Ins("cat", 12, 0, "x2", "out"),        \* line 418
       Ins("attention", 12, 1, "out", "out"), \* lines 420-422
       Ins("conv", 13, 13, "out", "out"),     \* line 425
       Ins("cat", 13, 0, "x1", "out"),        \* line 428
       Ins("attention", 13, 2, "out", "out"), \* lines 430-432
       Ins("conv", 14, 14, "out", "out"),     \* line 435
       Ins("cat", 14, 0, "x0", "out"),        \* line 438
       Ins("attention", 14, 3, "out", "out"), \* lines 440-442
       Ins("conv", 15, 15, "out", "out") >>   \* line 444

Registers == {"x", "x0", "x1", "x2", "x3", "x4", "x5", "x6", "x7", "out"}

\* the place of a statement in program order: within a stage the convolution,
\* then the normalization layer, then the concatenation and the gate
InsKey(ins) == 3 * ins.stage + (IF ins.op = "conv" THEN 0 ELSE 2)

NormKey(layer) == 3 * layer + 1

\* a key after the last statement
EndKey == 3 * 16

RunInit(x) ==
    [regs |-> [r \in Registers |-> IF r = "x" THEN x ELSE NoShape],
     status |-> "running", raised_at |-> 0,
     convs |-> <<>>, cats |-> <<>>, gates |-> <<>>]

\* one statement on the shapes
Step(conf, st, ins) ==
    IF ins.op = "conv"
    THEN LET decl == LayerDecl(conf, ins.idx)
             src == st.regs[ins.src]
             oh == ConvOutSize(decl, src.h)
             ow == ConvOutSize(decl, src.w)
         IN  IF src.c # decl.in \/ oh < 1 \/ ow < 1
             THEN [st EXCEPT !.status = "RuntimeError", !.raised_at = ins.stage]
             ELSE [st EXCEPT !.regs[ins.dst] = TShape(decl.out, oh, ow),
                             !.convs = Append(@, [layer |-> ins.idx, declared |-> decl.in,
                                                  got |-> src.c,
                                                  out |-> TShape(decl.out, oh, ow)])]
    ELSE IF ins.op = "cat"
    THEN LET a == st.regs["out"]
             b == st.regs[ins.src]
         IN  IF a.h # b.h \/ a.w # b.w     \* torch.cat((out, x_k), 1)
             THEN [st EXCEPT !.status = "RuntimeError", !.raised_at = ins.stage]
             ELSE [st EXCEPT !.regs["out"] = TShape(a.c + b.c, a.h, a.w),
                             !.cats = Append(@, [stage |-> ins.stage, skip |-> ins.src,
                                                 out |-> a, feature |-> b])]
    ELSE LET decl == AttentionDecl(conf, ins.idx)     \* tmp = sigmoid(conv(out)); out = tmp * out
             a == st.regs["out"]
         IN  IF a.c # decl.in
             THEN [st EXCEPT !.status = "RuntimeError", !.raised_at = ins.stage]
             ELSE [st EXCEPT !.gates = Append(@, [attention |-> ins.idx, stage |-> ins.stage,
                                                  declared |-> decl.in, got |-> a.c])]

\* the statements before the key limit, up to the first one that raises
RECURSIVE Run(_, _, _, _)
Run(conf, st, k, limit) ==
    IF k > Len(Program) \/ st.status # "running" THEN st
    ELSE IF InsKey(Program[k]) > limit THEN st
    ELSE Run(conf, Step(conf, st, Program[k]), k + 1, limit)

\* RainNet.forward(x, mask), lines 353-447: the convolutions and concatenations
\* together with the normalization layers, up to the first statement that raises
RainNetCall(indicator, conf, x) ==
    LET norms == RainNetForward(indicator)
        limit == IF norms.status = "returned" THEN EndKey ELSE NormKey(norms.raised_at)
        st == Run(conf, RunInit(x), 1, limit)
    IN  IF st.status = "running"
        THEN [status |-> norms.status, raised_at |-> norms.raised_at, calls |-> norms.calls,
              convs |-> st.convs, cats |-> st.cats, gates |-> st.gates,
              outshape |-> IF norms.status = "returned" THEN st.regs["out"] ELSE NoShape]
        ELSE [status |-> st.status, raised_at |-> st.raised_at,
              calls |-> SelectSeq(norms.calls, LAMBDA c : c.layer < st.raised_at),
              convs |-> st.convs, cats |-> st.cats, gates |-> st.gates,
              outshape |-> NoShape]

\* the masks handed to forward
GMasks == {<<0, 1>>, <<1, 1>>}

NoMask == <<>>

\* a RainNet built with the defaults, forward not called
G_Idle ==
    /\ g_indicator = DefaultIndicator
    /\ g_conf = DefaultConf
    /\ g_mask = NoMask
    /\ g_x = NoShape
    /\ g_status = "idle"
    /\ g_calls = <<>>
    /\ g_raised_at = 0
    /\ g_convs = <<>>
    /\ g_cats = <<>>
    /\ g_gates = <<>>
    /\ g_outshape = NoShape

\* after RainNet(3, 3, norm_type_indicator = indicator)
G_Init ==
    /\ g_indicator \in Indicators
    /\ g_conf = DefaultConf
    /\ g_mask = NoMask
    /\ g_x = NoShape
    /\ g_status = "idle"
    /\ g_calls = <<>>
    /\ g_raised_at = 0
    /\ g_convs = <<>>
    /\ g_cats = <<>>
    /\ g_gates = <<>>
    /\ g_outshape = NoShape

\* after RainNet(input_nc, output_nc, ngf, use_attention = ...), the indicator
\* left at its default
G_InitTopology ==
    /\ g_indicator = DefaultIndicator
    /\ g_conf \in GConfs
    /\ g_mask = NoMask
    /\ g_x = NoShape
    /\ g_status = "idle"
    /\ g_calls = <<>>
    /\ g_raised_at = 0
    /\ g_convs = <<>>
    /\ g_cats = <<>>
    /\ g_gates = <<>>
    /\ g_outshape = NoShape

\* RainNet.forward(x, mask)
RainNet_forward ==
    \E x \in XShapes, mask \in GMasks :
        \E r \in {RainNetCall(g_indicator, g_conf, x)} :
            /\ g_mask' = mask
            /\ g_x' = x
            /\ g_status' = r.status
            /\ g_calls' = r.calls
            /\ g_raised_at' = r.raised_at
            /\ g_convs' = r.convs
            /\ g_cats' = r.cats
            /\ g_gates' = r.gates
            /\ g_outshape' = r.outshape
            /\ UNCHANGED <<g_indicator, g_conf, gFrame>>

(***************************************************************************)
(* GANLoss.__call__.  A prediction is a non-empty sequence of integers.    *)
(* A loss is mean-reduced: value is the exact part of the mean, log1pexp   *)
(* the arguments a of the terms log(1 + exp(-a)) / n that                  *)
(* BCEWithLogitsLoss adds to it.                                           *)
(***************************************************************************)
MaxPred == 3

PredElems == {-2, 0, 1, 3}

Predictions == UNION {[1..n -> PredElems] : n \in 1..MaxPred}

\* the modes __init__ (lines 183-195) accepts
BuiltGanModes == {m \in GanModes : GANLossInit(m).status = "returned"}

\* lines 185-186: target_real_label = 1.0, target_fake_label = 0.0
RealLabel == 1
FakeLabel == 0

\* prediction.mean()
Mean(t) == Rat(SumSeq(t), Len(t))

\* get_target_tensor, lines 208-212
GetTargetTensor(prediction, target_is_real) ==
    [i \in 1..Len(prediction) |-> IF target_is_real THEN RealLabel ELSE FakeLabel]

\* nn.MSELoss(): mean((input - target)^2)
MSELoss(input, target) ==
    [value |-> Mean([i \in 1..Len(input) |-> (input[i] - target[i]) * (input[i] - target[i])]),
     log1pexp |-> <<>>]

\* nn.BCEWithLogitsLoss(): mean(max(x, 0) - x * t + log(1 + exp(-|x|)))
BCEWithLogitsLoss(input, target) ==
    [value |-> Mean([i \in 1..Len(input) |->
                        (IF input[i] > 0 THEN input[i] ELSE 0) - input[i] * target[i]]),
     log1pexp |-> [i \in 1..Len(input) |-> Abs(input[i])]]

NoTarget == <<>>

NoLoss == [value |-> <<0, 1>>, log1pexp |-> <<>>]

\* the commented-out variant of lines 228 and 230: relu(1 - mean), relu(1 + mean)
WassersteinLoss_hinge(prediction, target_is_real) ==
    LET m == Mean(prediction)
        h == IF target_is_real THEN RatSub(RatInt(1), m) ELSE RatAdd(RatInt(1), m)
    IN  [value |-> IF h[1] > 0 THEN h ELSE RatInt(0), log1pexp |-> <<>>]

\* lines 227-230
WassersteinLoss(prediction, target_is_real) ==
    LET m == Mean(prediction)
    IN  [value |-> IF target_is_real THEN <<-m[1], m[2]>> ELSE m, log1pexp |-> <<>>]

\* GANLoss.__call__, lines 214-232
GANLossCall(gan_mode, prediction, target_is_real) ==
    IF gan_mode \in {s_lsgan, s_vanilla}
    THEN LET target_tensor == GetTargetTensor(prediction, target_is_real)
         IN  [status |-> "returned",
              target |-> target_tensor,
              loss |-> IF gan_mode = s_lsgan THEN MSELoss(prediction, target_tensor)
                       ELSE BCEWithLogitsLoss(prediction, target_tensor)]
    ELSE IF gan_mode = s_wgangp
    THEN [status |-> "returned",
          target |-> NoTarget,
          loss |-> WassersteinLoss(prediction, target_is_real)]
    ELSE [status |-> "UnboundLocalError", target |-> NoTarget, loss |-> NoLoss]

NoGLCall == [prediction |-> <<>>, target_is_real |-> FALSE]

\* a GANLoss('lsgan') not yet called
GL_Idle ==
    /\ gl_mode = s_lsgan
    /\ gl_call = NoGLCall
    /\ gl_status = "none"
    /\ gl_target = NoTarget
    /\ gl_loss = NoLoss

\* after GANLoss(gan_mode)
GL_Init ==
    /\ gl_mode \in BuiltGanModes
    /\ gl_call = NoGLCall
    /\ gl_status = "none"
    /\ gl_target = NoTarget
    /\ gl_loss = NoLoss

\* criterion(prediction, target_is_real)
GANLoss_call ==
    \E prediction \in Predictions, target_is_real \in BOOLEAN :
        LET r == GANLossCall(gl_mode, prediction, target_is_real)
        IN  /\ gl_call' = [prediction |-> prediction, target_is_real |-> target_is_real]
            /\ gl_status' = r.status
            /\ gl_target' = r.target
            /\ gl_loss' = r.loss
            /\ UNCHANGED <<gl_mode, glFrame>>

(***************************************************************************)
(* RAIN (normalize.py).  The layer is run on a feature map of shape        *)
(* [1,1,1,W] and a mask of shape [1,1,1,M]; both are sequences of exact    *)
(* fractions.  A standard deviation is the square root of a fraction and   *)
(* is kept as that fraction (its square): a normalized value is the triple *)
(*    ratio * std_back / std_fore  +  inv_back / std_back  +  const        *)
(* of three exact coefficients.  eps is the constructor's parameter; the   *)
(* model draws it from positive fractions small enough for the exact       *)
(* arithmetic of the checker.                                              *)
(***************************************************************************)
RatDiv(a, b) ==
    IF b[1] > 0 THEN Rat(a[1] * b[2], a[2] * b[1])
    ELSE Rat((-a[1]) * b[2], a[2] * (-b[1]))

RECURSIVE RatSum(_)
RatSum(s) == IF s = <<>> THEN RatInt(0) ELSE RatAdd(Head(s), RatSum(Tail(s)))

\* the widths of the feature map and of the mask handed to forward
FeatWidths == {2, 3}
MaskWidths == {1, 2, 3}

FeatVals1 == {-1, 2}

\* the feature maps: every row of those widths and values that starts with 2
RainInputs ==
    {x \in UNION {[1..w -> {RatInt(v) : v \in FeatVals1}] : w \in FeatWidths} :
        x[1] = RatInt(2)}

\* binary masks of every width, and some masks with a value strictly inside [0,1]
RainMasks ==
    UNION {[1..m -> {RatInt(0), RatInt(1)}] : m \in MaskWidths}
    \cup {<< <<1, 2>> >>, << <<1, 2>>, <<1, 1>> >>, << <<0, 1>>, <<1, 2>>, <<1, 4>> >>}

\* eps = 1 / epsinv
EpsInvs == {2, 4}

\* line 11-14: the four vectors are zeros(dims_in), here dims_in = 1
ZeroParams ==
    [foreground_gamma |-> 0, foreground_beta |-> 0,
     background_gamma |-> 0, background_beta |-> 0]

\* the values a trained checkpoint puts in the four vectors
LoadedParams ==
    {[foreground_gamma |-> 2, foreground_beta |-> 1,
      background_gamma |-> 3, background_beta |-> -1]}

\* F.interpolate(mask, (H, W)) in its default mode 'nearest', line 17:
\* output position i (from 0) reads input position min(floor(i * M / W), M - 1)
Interpolate(mask, w) ==
    [i \in 1..w |->
        LET src == ((i - 1) * Len(mask)) \div w
        IN  mask[(IF src < Len(mask) - 1 THEN src ELSE Len(mask) - 1) + 1]]

\* a background mask taken as "where the foreground mask is zero"
BackgroundMask_iszero(foreground_mask) ==
    [i \in 1..Len(foreground_mask) |->
        IF foreground_mask[i] = RatInt(0) THEN RatInt(1) ELSE RatInt(0)]

\* line 20: background_mask = 1 - foreground_mask
BackgroundMask(foreground_mask) ==
    [i \in 1..Len(foreground_mask) |-> RatSub(RatInt(1), foreground_mask[i])]

\* the divisor without its stabiliser
Divisor_noeps(num, eps) == num

\* lines 40 and 43: num + self.eps
Divisor(num, eps) == RatAdd(num, eps)

\* get_foreground_mean_std, lines 36-46; std2 is var + eps, whose square root
\* is returned.  A zero divisor or a non-positive std2 gives inf or nan.
GetForegroundMeanStd(region, mask, eps) ==
    LET fore == [i \in 1..Len(region) |-> RatMul(region[i], mask[i])]
        num == RatSum(mask)
        tmp == RatSum(fore)
        divisor == Divisor(num, eps)
        mean == IF divisor[1] = 0 THEN RatInt(0) ELSE RatDiv(tmp, divisor)
        dev == [i \in 1..Len(region) |-> RatSub(fore[i], RatMul(mean, mask[i]))]
        sq == RatSum([i \in 1..Len(region) |-> RatMul(dev[i], dev[i])])
        var == IF divisor[1] = 0 THEN RatInt(0) ELSE RatDiv(sq, divisor)
        std2 == RatAdd(var, eps)
    IN  [num |-> num, divisor |-> divisor, mean |-> mean, var |-> var, std2 |-> std2,
         finite |-> divisor[1] # 0 /\ std2[1] > 0]

\* arithmetic on the triples
Sym(ratio, inv_back, const) == [ratio |-> ratio, inv_back |-> inv_back, const |-> const]

SymZero == Sym(RatInt(0), RatInt(0), RatInt(0))

SymScale(s, q) == Sym(RatMul(s.ratio, q), RatMul(s.inv_back, q), RatMul(s.const, q))

SymAddConst(s, q) == Sym(s.ratio, s.inv_back, RatAdd(s.const, q))

SymAdd(s, t) ==
    Sym(RatAdd(s.ratio, t.ratio), RatAdd(s.inv_back, t.inv_back), RatAdd(s.const, t.const))

\* lines 23-26 before the mask is applied: ((x - mean_back) / std_back) * a + b
BackgroundBranch(xi, mean_back, params) ==
    SymAddConst(SymScale(Sym(RatInt(0), RatSub(xi, mean_back), RatInt(0)),
                         RatInt(params.background_gamma)),
                RatInt(params.background_beta))

\* the foreground branch without line 29, the transfer to the background's
\* statistics
ForegroundBranch_plain(xi, mean_fore, mean_back, params) ==
    SymAddConst(SymScale(Sym(RatInt(0), RatSub(xi, mean_fore), RatInt(0)),
                         RatInt(params.foreground_gamma)),
                RatInt(params.foreground_beta))

\* lines 28-32 before the mask is applied:
\* (((x - mean_fore) / std_fore) * std_back + mean_back) * a + b
ForegroundBranch(xi, mean_fore, mean_back, params) ==
    SymAddConst(SymScale(Sym(RatSub(xi, mean_fore), RatInt(0), mean_back),
                         RatInt(params.foreground_gamma)),
                RatInt(params.foreground_beta))

NoStats ==
    [num |-> RatInt(0), divisor |-> RatInt(0), mean |-> RatInt(0), var |-> RatInt(0),
     std2 |-> RatInt(0), finite |-> FALSE]

\* RAIN.forward, lines 16-34
RAINForward(x, mask, params, eps) ==
    LET foreground_mask == Interpolate(mask, Len(x))
        fore == GetForegroundMeanStd(x, foreground_mask, eps)
        background_mask == BackgroundMask(foreground_mask)
        back == GetForegroundMeanStd(x, background_mask, eps)
        normalized_background ==
            [i \in 1..Len(x) |->
                SymScale(BackgroundBranch(x[i], back.mean, params), background_mask[i])]
        normalized_foreground ==
            [i \in 1..Len(x) |->
                SymScale(ForegroundBranch(x[i], fore.mean, back.mean, params),
                         foreground_mask[i])]
    IN  [status |-> IF fore.finite /\ back.finite THEN "returned" ELSE "nonfinite",
         foreground_mask |-> foreground_mask,
         background_mask |-> background_mask,
         fore |-> fore,
         back |-> back,
         output |-> IF fore.finite /\ back.finite
                    THEN [i \in 1..Len(x) |->
                             SymAdd(normalized_foreground[i], normalized_background[i])]
                    ELSE <<>>]

\* class names, for classname.find
s_RAIN == <<"R", "A", "I", "N">>
s_Conv == <<"C", "o", "n", "v">>
s_Linear == <<"L", "i", "n", "e", "a", "r">>
s_BatchNorm2d == <<"B", "a", "t", "c", "h", "N", "o", "r", "m", "2", "d">>
s_Conv2d == <<"C", "o", "n", "v", "2", "d">>
s_ConvTranspose2d == <<"C", "o", "n", "v", "T", "r", "a", "n", "s", "p", "o", "s", "e", "2", "d">>
s_InstanceNorm2d == <<"I", "n", "s", "t", "a", "n", "c", "e", "N", "o", "r", "m", "2", "d">>

\* str.find(sub) != -1
Contains(str, sub) ==
    \E i \in 0..(Len(str) - Len(sub)) : SubSeq(str, i + 1, i + Len(sub)) = sub

\* an init_func that takes every normalization layer for a BatchNorm2d
InitFunc_anynorm(classname, has_weight, init_type) ==
    IF has_weight /\ (Contains(classname, s_Conv) \/ Contains(classname, s_Linear))
    THEN IF init_type \in {s_normal, s_xavier, s_kaiming, s_orthogonal}
         THEN "weight_init" ELSE "NotImplementedError"
    ELSE IF Contains(classname, s_BatchNorm2d) \/ classname = s_RAIN
    THEN "batchnorm_init"
    ELSE "untouched"

\* init_func of init_weights, lines 125-142: what it does to a module of the
\* given class name
InitFunc(classname, has_weight, init_type) ==
    IF has_weight /\ (Contains(classname, s_Conv) \/ Contains(classname, s_Linear))
    THEN IF init_type \in {s_normal, s_xavier, s_kaiming, s_orthogonal}
         THEN "weight_init" ELSE "NotImplementedError"
    ELSE IF Contains(classname, s_BatchNorm2d)
    THEN "batchnorm_init"
    ELSE "untouched"

\* lines 140-142 applied to a module: weight ~ N(1.0, gain), bias = 0; a RAIN
\* layer has no attribute of either name, its vectors stand in for them
AfterInitFunc(outcome, params) ==
    IF outcome = "batchnorm_init"
    THEN [foreground_gamma |-> 1, foreground_beta |-> 0,
          background_gamma |-> 1, background_beta |-> 0]
    ELSE params

NoRainCall == [x |-> <<>>, mask |-> <<>>, params |-> ZeroParams]

NoRainMasks == [foreground |-> <<>>, background |-> <<>>]

NoRainStats == [fore |-> NoStats, back |-> NoStats]

\* a RAIN(1, eps = 1/4) never called
RN_Idle ==
    /\ rn_epsinv = 4
    /\ rn_params = ZeroParams
    /\ rn_inited = FALSE
    /\ rn_loaded = FALSE
    /\ rn_call = NoRainCall
    /\ rn_status = "none"
    /\ rn_masks = NoRainMasks
    /\ rn_stats = NoRainStats
    /\ rn_out = <<>>

\* after RAIN(1, eps), lines 6-15
RN_Init ==
    /\ rn_epsinv \in EpsInvs
    /\ rn_params = ZeroParams
    /\ rn_inited = FALSE
    /\ rn_loaded = FALSE
    /\ rn_call = NoRainCall
    /\ rn_status = "none"
    /\ rn_masks = NoRainMasks
    /\ rn_stats = NoRainStats
    /\ rn_out = <<>>

\* RAIN.forward(x, mask)
RAIN_forward ==
    \E x \in RainInputs, mask \in RainMasks :
        \E r \in {RAINForward(x, mask, rn_params, <<1, rn_epsinv>>)} :
            /\ rn_call' = [x |-> x, mask |-> mask, params |-> rn_params]
            /\ rn_status' = r.status
            /\ rn_masks' = [foreground |-> r.foreground_mask, background |-> r.background_mask]
            /\ rn_stats' = [fore |-> r.fore, back |-> r.back]
            /\ rn_out' = r.output
            /\ UNCHANGED <<rn_epsinv, rn_params, rn_inited, rn_loaded, rnFrame>>

\* net.apply(init_func) reaching the RAIN layer, line 145
RAIN_init_weights ==
    \E init_type \in InitTypes :
        /\ rn_params' = AfterInitFunc(InitFunc(s_RAIN, FALSE, init_type), rn_params)
        /\ rn_inited' = TRUE
        /\ UNCHANGED <<rn_epsinv, rn_loaded, rn_call, rn_status, rn_masks, rn_stats, rn_out, rnFrame>>

\* nn.Module.load_state_dict: the four nn.Parameter vectors of lines 11-14
\* take the values of a checkpoint
RAIN_load_state_dict ==
    \E params \in LoadedParams :
        /\ rn_params' = params
        /\ rn_loaded' = TRUE
        /\ UNCHANGED <<rn_epsinv, rn_inited, rn_call, rn_status, rn_masks, rn_stats, rn_out, rnFrame>>

(***************************************************************************)
(* RainNet.processImage                                                    *)
(***************************************************************************)
\* a 3-channel image whose pixels all differ: value base + 10 * channel + position
Image3(base) == [c \in 1..3 |-> [p \in Pixels |-> base + 10 * c + p]]

XBases == {100}
BgBases == {300}
PredVals == {-1, 0, 1}

\* what RainNet.forward hands back: any 3-channel image (one free value per
\* position, shifted per channel so that the channels differ)
PredImage(pv) == [c \in 1..3 |-> [p \in Pixels |-> pv[p] + 2 * c]]

\* line 451: the optional composite over the background
PI_Composited(x, mask, hasbg, background) ==
    IF hasbg THEN Composite(x, mask, background) ELSE x

\* lines 452-453: the mask appended as a 4th channel
PI_NetInput(input_nc, x, mask) ==
    IF input_nc = 4 THEN CatChannels(x, <<mask>>) ELSE x

\* a plausible slip of line 455: the slice taken one channel too far
PI_Blend_shifted(pred, mask, x) == Composite(pred, mask, SubSeq(x, 2, Len(x)) \o <<x[1]>>)

\* line 455: pred * mask + x[:, :3, :, :] * (1 - mask)
PI_Blend(pred, mask, x) == Composite(pred, mask, FirstThree(x))

PI_Idle ==
    /\ pi_input_nc = 3
    /\ pi_x = Image3(0)
    /\ pi_mask = [p \in Pixels |-> 0]
    /\ pi_hasbg = FALSE
    /\ pi_background = Image3(0)
    /\ pi_pred = Image3(0)
    /\ pi_out = Image3(0)
    /\ pi_pc = "unused"

PI_Init ==
    /\ pi_input_nc \in {3, 4}
    /\ pi_x = Image3(0)
    /\ pi_mask = [p \in Pixels |-> 0]
    /\ pi_hasbg = FALSE
    /\ pi_background = Image3(0)
    /\ pi_pred = Image3(0)
    /\ pi_out = Image3(0)
    /\ pi_pc = "constructed"

processImage ==
    \E xb \in XBases, mask \in BinaryMasks(MaxPix), hasbg \in BOOLEAN,
       bb \in BgBases, pv \in [Pixels -> PredVals] :
        LET x0 == Image3(xb)
            bg == Image3(bb)
            x1 == PI_Composited(x0, mask, hasbg, bg)
            x2 == PI_NetInput(pi_input_nc, x1, mask)
            pred == PredImage(pv)
        IN  /\ pi_x' = x0
            /\ pi_mask' = mask
            /\ pi_hasbg' = hasbg
            /\ pi_background' = IF hasbg THEN bg ELSE Image3(0)
            /\ pi_pred' = pred
            /\ pi_out' = PI_Blend(pred, mask, x2)
            /\ pi_pc' = "returned"
            /\ UNCHANGED <<pi_input_nc, piFrame>>

(***************************************************************************)
(* The specifications, one per component.                                  *)
(***************************************************************************)
\* SPECS-BEGIN
Init_processImage == PI_Init /\ PC_Idle /\ GP_Init /\ CT_Init /\ D_Idle /\ G_Idle /\ GL_Idle /\ RN_Idle

Next_processImage == processImage

Spec_processImage == Init_processImage /\ [][Next_processImage]_vars

Init_PartialConv2d == PC_Init /\ PI_Idle /\ GP_Init /\ CT_Init /\ D_Idle /\ G_Idle /\ GL_Idle /\ RN_Idle

Next_PartialConv2d == forward_mask \/ forward_nomask

Spec_PartialConv2d == Init_PartialConv2d /\ [][Next_PartialConv2d]_vars

Init_cal_gradient_penalty == GP_Init /\ PI_Idle /\ PC_Idle /\ CT_Init /\ D_Idle /\ G_Idle /\ GL_Idle /\ RN_Idle

Next_cal_gradient_penalty == cal_gradient_penalty

Spec_cal_gradient_penalty == Init_cal_gradient_penalty /\ [][Next_cal_gradient_penalty]_vars

Init_construction == CT_Init /\ PI_Idle /\ PC_Idle /\ GP_Init /\ D_Idle /\ G_Idle /\ GL_Idle /\ RN_Idle

Next_construction == get_norm_layer \/ GANLoss \/ define_G \/ define_D

Spec_construction == Init_construction /\ [][Next_construction]_vars

Init_discriminator == D_Init /\ PI_Idle /\ PC_Idle /\ GP_Init /\ CT_Init /\ G_Idle /\ GL_Idle /\ RN_Idle

Next_discriminator == OrgDiscriminator_forward \/ NLayerDiscriminator_forward

Spec_discriminator == Init_discriminator /\ [][Next_discriminator]_vars
Init_RainNet == G_Init /\ PI_Idle /\ PC_Idle /\ GP_Init /\ CT_Init /\ D_Idle /\ GL_Idle /\ RN_Idle

Next_RainNet == RainNet_forward

Spec_RainNet == Init_RainNet /\ [][Next_RainNet]_vars

Init_GANLoss == GL_Init /\ PI_Idle /\ PC_Idle /\ GP_Init /\ CT_Init /\ D_Idle /\ G_Idle /\ RN_Idle

Next_GANLoss == GANLoss_call

Spec_GANLoss == Init_GANLoss /\ [][Next_GANLoss]_vars

Init_RAIN == RN_Init /\ PI_Idle /\ PC_Idle /\ GP_Init /\ CT_Init /\ D_Idle /\ G_Idle /\ GL_Idle

Next_RAIN == RAIN_forward \/ RAIN_init_weights \/ RAIN_load_state_dict

Spec_RAIN == Init_RAIN /\ [][Next_RAIN]_vars

Init_RainNetTopology == G_InitTopology /\ PI_Idle /\ PC_Idle /\ GP_Init /\ CT_Init /\ D_Idle /\ GL_Idle /\ RN_Idle

Next_RainNetTopology == RainNet_forward

Spec_RainNetTopology == Init_RainNetTopology /\ [][Next_RainNetTopology]_vars
\* SPECS-END

(***************************************************************************)
(* C1: after processImage(x, mask, background) with a binary mask, every   *)
(* output pixel at a position where mask = 0 equals the pixel of the first *)
(* three channels of the input x (of the background, when one is given),   *)
(* whatever the forward pass returned; the positions where mask = 1 carry  *)
(* the network output.                                                     *)
(***************************************************************************)
C1_BackgroundPreserved ==
    pi_pc = "returned" =>
        \A c \in 1..3, p \in Pixels :
            /\ (pi_mask[p] = 0 /\ ~pi_hasbg) => pi_out[c][p] = pi_x[c][p]
            /\ (pi_mask[p] = 0 /\ pi_hasbg) => pi_out[c][p] = pi_background[c][p]
            /\ pi_mask[p] = 1 => pi_out[c][p] = pi_pred[c][p]

\* a 4-channel generator returned with one position outside the mask, where the
\* network output differs from the input, and one position inside it
C1_Witness ==
    /\ pi_pc = "returned"
    /\ pi_input_nc = 4
    /\ ~pi_hasbg
    /\ \E p, q \in Pixels :
        /\ pi_mask[p] = 0 /\ pi_mask[q] = 1
        /\ pi_pred[1][p] # pi_x[1][p]
        /\ pi_out[1][p] = pi_x[1][p]

(***************************************************************************)
(* C2: for any sequence of forward calls on one PartialConv2d instance,    *)
(* with and without a mask, the output and the updated mask of each call   *)
(* equal what a computation without the cache (a new instance's forward on *)
(* the same input and mask) returns.                                       *)
(***************************************************************************)
C2_CacheNeverChangesResult ==
    pc_call.status = "returned" =>
        LET r == Forward(pc_conv, FreshCache, pc_call.input, pc_call.mask_given, pc_call.mask_in)
        IN  /\ pc_call.output = r.output
            /\ pc_call.mask = r.mask

AllOnesCall ==
    /\ pc_call.status = "returned"
    /\ \/ pc_call.mask_given /\ pc_call.mask_in = Ones(Len(pc_call.input))
       \/ ~pc_call.mask_given /\ pc_call.fresh

EqualsPlainConv ==
    /\ pc_call.output = PlainConv(pc_conv, pc_call.input)
    /\ pc_call.mask = Ones(Len(pc_call.output))

(***************************************************************************)
(* C3 as stated: given an all-ones mask (or no mask on a new instance),    *)
(* for every kernel size, stride, padding and dilation, the output equals  *)
(* the plain convolution's and the updated mask is all ones.               *)
(***************************************************************************)
C3_AllOnesIsPlainConv == AllOnesCall => EqualsPlainConv

(***************************************************************************)
(* C3 amended: the same, for a convolution without padding.                *)
(***************************************************************************)
C3_AllOnesIsPlainConv_NoPadding ==
    (AllOnesCall /\ pc_conv.padding = 0) => EqualsPlainConv

\* an unpadded strided, dilated 2-tap convolution with a bias returned on an
\* explicit all-ones mask, and the instance had served a call before
C3_Witness ==
    /\ AllOnesCall
    /\ pc_call.mask_given
    /\ ~pc_call.fresh
    /\ pc_conv.padding = 0 /\ pc_conv.kernel_size = 2 /\ pc_conv.stride = 2
    /\ pc_conv.dilation = 2 /\ pc_conv.has_bias
    /\ Len(pc_call.output) >= 1

(***************************************************************************)
(* C4: cal_gradient_penalty called with lambda_gp = 0 returns (0.0, None)  *)
(* for any discriminator, data and interpolation kind, without invoking    *)
(* the discriminator, computing a gradient or touching real_data or        *)
(* fake_data.                                                              *)
(***************************************************************************)
C4_ZeroWeightReturnsZero ==
    (gp_status # "none" /\ gp_args.lambda_gp = 0) =>
        /\ gp_status = "returned"
        /\ gp_result.penalty = 0
        /\ ~gp_result.has_gradients
        /\ ~gp_trace.netD_called
        /\ ~gp_trace.grad_computed
        /\ gp_trace.touched = {}

\* a call with weight 0 and an unknown kind came back
C4_Witness ==
    /\ gp_status = "returned"
    /\ gp_args.lambda_gp = 0
    /\ gp_args.type = "bogus"

(***************************************************************************)
(* C6 as stated: cal_gradient_penalty raises for every interpolation kind  *)
(* other than 'real', 'fake' and 'mixed', for every value of lambda_gp.    *)
(***************************************************************************)
C6_UnknownKindRaises ==
    (gp_status # "none" /\ gp_args.type \notin {"real", "fake", "mixed"}) =>
        gp_status = "raised"

(***************************************************************************)
(* C6 amended: it raises for every such kind whenever lambda_gp > 0, and   *)
(* a call with such a kind that returns (lambda_gp <= 0) returns           *)
(* (0.0, None): no penalty is computed for an unknown kind.                *)
(***************************************************************************)
C6_UnknownKindRaisesWhenActive ==
    (gp_status # "none" /\ gp_args.type \notin {"real", "fake", "mixed"}) =>
        /\ gp_args.lambda_gp > 0 => gp_status = "raised"
        /\ gp_status = "returned" =>
              /\ gp_args.lambda_gp <= 0
              /\ gp_result = NoResult
              /\ ~gp_trace.netD_called

\* a call with a positive weight and the kind 'Mixed' raised
C6_Witness ==
    /\ gp_status = "raised"
    /\ gp_args.type = "Mixed"
    /\ gp_args.lambda_gp = 10

UnknownNorm(name) ==
    /\ Lower(name) \notin {s_batch, s_instance, s_none}
    /\ ~StartsWith(Lower(name), s_rain)

(***************************************************************************)
(* C5: construction with an unsupported name raises and hands back no      *)
(* object: get_norm_layer for every kind outside batch, instance, none,    *)
(* rain*; GANLoss for every mode outside lsgan, vanilla, wgangp; define_G  *)
(* for every generator name but rainnet; define_D for every discriminator  *)
(* name outside basic, n_layers, pixel.                                    *)
(***************************************************************************)
C5_UnsupportedNameRaises ==
    LET unsupported ==
            \/ ct_call.fn = "get_norm_layer" /\ UnknownNorm(ct_call.name)
            \/ ct_call.fn = "GANLoss" /\ ct_call.name \notin {s_lsgan, s_vanilla, s_wgangp}
            \/ ct_call.fn = "define_G" /\ (ct_call.name # s_rainnet \/ UnknownNorm(ct_call.norm))
            \/ ct_call.fn = "define_D"
                  /\ (ct_call.name \notin {s_basic, s_n_layers, s_pixel} \/ UnknownNorm(ct_call.norm))
    IN  unsupported => (ct_status = "raised" /\ ct_object = NoObject)

\* define_G was called with a supported normalization and initialization but
\* the generator name 'RainNet', and raised
C5_Witness ==
    /\ ct_call.fn = "define_G"
    /\ ct_call.name = <<"R", "a", "i", "n", "N", "e", "t">>
    /\ ct_call.norm = s_instance
    /\ ct_call.init_type = s_normal
    /\ ct_status = "raised"

(***************************************************************************)
(* C7: a forward call of the discriminator (NLayerDiscriminator.forward,   *)
(* OrgDiscriminator.forward beneath it) with the mask omitted completes    *)
(* without raising and returns its outputs.                                *)
(***************************************************************************)
C7_MaskOmittedAccepted ==
    (d_call.fn # "none" /\ ~d_call.mask_given /\ d_D.norm_layer # "RAIN") =>
        (d_status = "returned" /\ d_result.kind # "none")

(***************************************************************************)
(* C8: what NLayerDiscriminator.forward returns is the pair                *)
(* (global_logit, local_similarity_map) when gp and feat_loss are false,   *)
(* the 4-tuple (global_logit, local_similarity_map, global_features,       *)
(* local_features) when gp is false and feat_loss is true, and the single  *)
(* tensor (global_logit + local_similarity_map) * 0.5 whenever gp is true. *)
(***************************************************************************)
C8_ReturnByMode ==
    (d_call.fn = "NLayerDiscriminator.forward" /\ d_status = "returned") =>
        /\ (~d_call.gp /\ ~d_call.feat_loss) =>
              d_result = [kind |-> "tuple", items |-> <<d_locals.x, d_locals.sim_sum>>]
        /\ (~d_call.gp /\ d_call.feat_loss) =>
              d_result = [kind |-> "tuple",
                          items |-> <<d_locals.x, d_locals.sim_sum, d_locals.feat_g, d_locals.feat_l>>]
        /\ d_call.gp =>
              /\ d_result.kind = "tensor"
              /\ Len(d_result.items) = 1
              /\ RatAdd(d_result.items[1], d_result.items[1]) = RatAdd(d_locals.x, d_locals.sim_sum)

\* a call with gp and feat_loss both set returned one tensor, and the global
\* logit and the similarity map it averages differ
C8_Witness ==
    /\ d_call.fn = "NLayerDiscriminator.forward"
    /\ d_status = "returned"
    /\ d_call.gp /\ d_call.feat_loss
    /\ d_result.kind = "tensor"
    /\ d_locals.x # d_locals.sim_sum

(***************************************************************************)
(* C9: in an OrgDiscriminator built with global_stages = g, at every depth *)
(* d of 1..7: if g >= d the global branch and the foreground/background    *)
(* branch hold the very same convolution and normalization instance, and   *)
(* otherwise distinct instances.                                           *)
(***************************************************************************)
C9_SharedBelowGlobalStages ==
    d_class = "OrgDiscriminator" =>
        \A d \in Depths :
            /\ d_D.global_stages >= d =>
                  /\ d_D.convf[d] = d_D.conv[d]
                  /\ d \in NormDepths => d_D.normf[d] = d_D.norm[d]
            /\ d_D.global_stages < d =>
                  /\ d_D.convf[d] # d_D.conv[d]
                  /\ d \in NormDepths => d_D.normf[d] # d_D.norm[d]

(***************************************************************************)
(* C10: for every indicator vector in {0,1}^14 a RainNet was built with,   *)
(* a forward call completes and each of the 14 normalization layers is     *)
(* invoked according to its kind, a RAIN layer with the mask and an        *)
(* instance-norm layer without it.                                         *)
(***************************************************************************)
C10_EveryLayerInvokedByKind ==
    g_status # "idle" =>
        /\ g_status = "returned"
        /\ \A i \in NormIndex :
              \E k \in 1..Len(g_calls) :
                  /\ g_calls[k].layer = i
                  /\ g_calls[k].class = NormLayerClass(g_indicator, i)
                  /\ g_calls[k].with_mask = (g_calls[k].class = "RAIN")

(***************************************************************************)
(* C11: a call of a GANLoss built in mode 'wgangp' returns exactly         *)
(* -mean(prediction) for target_is_real and +mean(prediction) otherwise,   *)
(* materializes no target tensor, and the losses of the same prediction    *)
(* for the two targets add up to zero.                                     *)
(***************************************************************************)
C11_WassersteinLoss ==
    (gl_mode = s_wgangp /\ gl_status # "none") =>
        /\ gl_status = "returned"
        /\ gl_target = NoTarget
        /\ gl_loss.log1pexp = <<>>
        /\ gl_loss.value[1] * Len(gl_call.prediction)
             = (IF gl_call.target_is_real THEN -1 ELSE 1) * SumSeq(gl_call.prediction) * gl_loss.value[2]
        /\ RatAdd(gl_loss.value,
                  GANLossCall(gl_mode, gl_call.prediction, ~gl_call.target_is_real).loss.value)
             = RatInt(0)

\* a Wasserstein loss of a prediction whose mean is not zero, for a real target
C11_Witness ==
    /\ gl_mode = s_wgangp
    /\ gl_status = "returned"
    /\ gl_call.target_is_real
    /\ Len(gl_call.prediction) > 1
    /\ SumSeq(gl_call.prediction) # 0
    /\ gl_loss.value[1] # 0

(***************************************************************************)
(* C12: in RAIN.forward, for every mask with values in [0,1] and every     *)
(* feature-map width, the resized foreground mask and the background mask  *)
(* derived from it sum to exactly 1 at every element.                      *)
(***************************************************************************)
C12_MasksSumToOne ==
    rn_status # "none" =>
        /\ Len(rn_masks.foreground) = Len(rn_call.x)
        /\ Len(rn_masks.background) = Len(rn_call.x)
        /\ \A i \in 1..Len(rn_call.x) :
              RatAdd(rn_masks.foreground[i], rn_masks.background[i]) = RatInt(1)

\* a mask with a value strictly between 0 and 1 was resized to another width
C12_Witness ==
    /\ rn_status = "returned"
    /\ Len(rn_call.mask) # Len(rn_call.x)
    /\ \E i \in 1..Len(rn_call.x) :
          /\ rn_masks.foreground[i] \notin {RatInt(0), RatInt(1)}
          /\ rn_masks.background[i] \notin {RatInt(0), RatInt(1)}

(***************************************************************************)
(* C13: RAIN.forward given a mask that is all zero or all one does not     *)
(* raise and never divides by zero: for both regions the divisor           *)
(* (mask sum + eps) is strictly positive and std^2 = var + eps is strictly *)
(* positive, so an output is returned for the whole feature map.           *)
(***************************************************************************)
UniformMask ==
    \/ \A i \in 1..Len(rn_call.mask) : rn_call.mask[i] = RatInt(0)
    \/ \A i \in 1..Len(rn_call.mask) : rn_call.mask[i] = RatInt(1)

C13_ZeroAreaIsFinite ==
    (rn_status # "none" /\ UniformMask) =>
        /\ rn_status = "returned"
        /\ rn_stats.fore.divisor[1] > 0
        /\ rn_stats.back.divisor[1] > 0
        /\ rn_stats.fore.var[1] >= 0
        /\ rn_stats.back.var[1] >= 0
        /\ rn_stats.fore.std2[1] > 0
        /\ rn_stats.back.std2[1] > 0
        /\ Len(rn_out) = Len(rn_call.x)

\* an all-zero mask: the foreground region is empty, its mask sum is 0 and its
\* divisor is eps alone
C13_Witness ==
    /\ rn_status = "returned"
    /\ \A i \in 1..Len(rn_call.mask) : rn_call.mask[i] = RatInt(0)
    /\ rn_stats.fore.num = RatInt(0)
    /\ rn_stats.fore.divisor = <<1, rn_epsinv>>
    /\ rn_stats.back.var[1] > 0

(***************************************************************************)
(* C18: for a binary resized mask the output of RAIN.forward is a masked   *)
(* select: where the foreground mask is 1 it is the foreground branch      *)
(* (((x - mean_fore)/std_fore) * std_back + mean_back) * foreground_gamma  *)
(* + foreground_beta, where it is 0 the background branch                  *)
(* ((x - mean_back)/std_back) * background_gamma + background_beta.        *)
(***************************************************************************)
BinaryResizedMask ==
    \A i \in 1..Len(rn_masks.foreground) : rn_masks.foreground[i] \in {RatInt(0), RatInt(1)}

C18_MaskedSelect ==
    (rn_status = "returned" /\ BinaryResizedMask) =>
        \A i \in 1..Len(rn_call.x) :
            rn_out[i] =
                IF rn_masks.foreground[i] = RatInt(1)
                THEN [ratio |-> RatMul(RatSub(rn_call.x[i], rn_stats.fore.mean),
                                       RatInt(rn_call.params.foreground_gamma)),
                      inv_back |-> RatInt(0),
                      const |-> RatAdd(RatMul(rn_stats.back.mean,
                                              RatInt(rn_call.params.foreground_gamma)),
                                       RatInt(rn_call.params.foreground_beta))]
                ELSE [ratio |-> RatInt(0),
                      inv_back |-> RatMul(RatSub(rn_call.x[i], rn_stats.back.mean),
                                          RatInt(rn_call.params.background_gamma)),
                      const |-> RatInt(rn_call.params.background_beta)]

\* trained parameters, a mask with both regions, and an output that takes a
\* value from each branch
C18_Witness ==
    /\ rn_status = "returned"
    /\ BinaryResizedMask
    /\ \E i, j \in 1..Len(rn_call.x) :
          /\ rn_masks.foreground[i] = RatInt(1)
          /\ rn_masks.foreground[j] = RatInt(0)
          /\ rn_out[i].ratio # RatInt(0)
          /\ rn_out[j].inv_back # RatInt(0)

(***************************************************************************)
(* C20: the four affine vectors of a RAIN layer are all zero after         *)
(* construction and stay all zero under the weight initialization of       *)
(* define_G / init_net; in that state RAIN.forward returns zero at every   *)
(* element, for every input and every mask with values in [0,1].           *)
(***************************************************************************)
C20_ZeroUntilTrained ==
    ~rn_loaded =>
        /\ rn_params = ZeroParams
        /\ rn_status # "none" =>
              /\ rn_status = "returned"
              /\ \A i \in 1..Len(rn_call.x) : rn_out[i] = SymZero

\* init_weights has reached the layer and a forward call on a feature map that
\* is not constant, with a mask that has both regions, returned
C20_Witness ==
    /\ rn_inited /\ ~rn_loaded
    /\ rn_status = "returned"
    /\ rn_call.x[1] # rn_call.x[2]
    /\ \E i, j \in 1..Len(rn_call.x) :
          /\ rn_masks.foreground[i] = RatInt(1)
          /\ rn_masks.foreground[j] = RatInt(0)

(***************************************************************************)
(* C16: for PartialConv2d called with an explicit binary mask, the updated *)
(* mask at an output location is 1 if at least one input position of its   *)
(* receptive field is valid and 0 otherwise, and where the updated mask is *)
(* 0 the output is exactly 0, with and without a bias.                     *)
(***************************************************************************)
\* the input positions (from 1) under the kernel at output location j; the
\* positions that fall in the padding are no input positions
ReceptiveField(j) ==
    {q \in 1..Len(pc_call.input) :
        \E i \in 1..pc_conv.kernel_size :
            q + pc_conv.padding = (j - 1) * pc_conv.stride + (i - 1) * pc_conv.dilation + 1}

C16_MaskUpdateAndZeroing ==
    (pc_call.status = "returned" /\ pc_call.mask_given) =>
        /\ Len(pc_call.mask) = Len(pc_call.output)
        /\ \A j \in 1..Len(pc_call.mask) :
              /\ pc_call.mask[j] =
                    (IF \E q \in ReceptiveField(j) : pc_call.mask_in[q] = 1 THEN 1 ELSE 0)
              /\ pc_call.mask[j] = 0 => pc_call.output[j] = RatInt(0)

\* a convolution with a bias, called with a mask that leaves one output location
\* without a valid input and another with one
C16_Witness ==
    /\ pc_call.status = "returned" /\ pc_call.mask_given
    /\ pc_conv.has_bias
    /\ \E j, l \in 1..Len(pc_call.mask) :
          /\ pc_call.mask[j] = 0
          /\ ReceptiveField(j) # {}
          /\ pc_call.mask[l] = 1
          /\ pc_call.output[l] # RatInt(0)

(***************************************************************************)
(* C19: in cal_gradient_penalty with kind 'mixed' and lambda_gp > 0 one    *)
(* coefficient alpha of [0,1] is drawn per batch element, every element of *)
(* the interpolated batch is alpha * real + (1 - alpha) * fake with the    *)
(* alpha of its batch element and so lies between the real and the fake    *)
(* value; with kind 'real' ('fake') the interpolated batch is real_data    *)
(* (fake_data).  The interpolated batch is kept times AlphaDen.            *)
(***************************************************************************)
Between(v, a, b) == (a <= v /\ v <= b) \/ (b <= v /\ v <= a)

C19_Interpolation ==
    (gp_status = "returned" /\ gp_args.lambda_gp > 0) =>
        /\ gp_args.type = "mixed" =>
              /\ Len(gp_args.alpha) = Len(gp_args.real_data)
              /\ \A b \in 1..Len(gp_args.real_data) :
                    /\ 0 <= gp_args.alpha[b] /\ gp_args.alpha[b] <= AlphaDen
                    /\ \A e \in 1..Len(gp_args.real_data[b]) :
                          /\ gp_trace.interpolatesv[b][e]
                               = gp_args.alpha[b] * gp_args.real_data[b][e]
                                 + (AlphaDen - gp_args.alpha[b]) * gp_args.fake_data[b][e]
                          /\ Between(gp_trace.interpolatesv[b][e],
                                     AlphaDen * gp_args.real_data[b][e],
                                     AlphaDen * gp_args.fake_data[b][e])
        /\ gp_args.type = "real" =>
              \A b \in 1..Len(gp_args.real_data) : \A e \in 1..Len(gp_args.real_data[b]) :
                  gp_trace.interpolatesv[b][e] = AlphaDen * gp_args.real_data[b][e]
        /\ gp_args.type = "fake" =>
              \A b \in 1..Len(gp_args.fake_data) : \A e \in 1..Len(gp_args.fake_data[b]) :
                  gp_trace.interpolatesv[b][e] = AlphaDen * gp_args.fake_data[b][e]

\* a 'mixed' call whose two batch elements drew different coefficients, neither
\* of them 0
C19_Witness ==
    /\ gp_status = "returned"
    /\ gp_args.lambda_gp > 0
    /\ gp_args.type = "mixed"
    /\ gp_args.alpha[1] # gp_args.alpha[2]
    /\ gp_args.alpha[1] > 0 /\ gp_args.alpha[2] > 0
    /\ gp_trace.interpolatesv[1][1] # AlphaDen * gp_args.fake_data[1][1]

(***************************************************************************)
(* C14: the attention option is honoured: a RainNet built with             *)
(* use_attention = False applies no attention gate in forward, one built   *)
(* with use_attention = True applies the gate at exactly three decoder     *)
(* stages.                                                                 *)
(***************************************************************************)
C14_AttentionOptionHonoured ==
    g_status = "returned" =>
        /\ g_conf.use_attention =>
              /\ Len(g_gates) = 3
              /\ \A i, j \in 1..Len(g_gates) : i # j => g_gates[i].stage # g_gates[j].stage
        /\ ~g_conf.use_attention => g_gates = <<>>

(***************************************************************************)
(* C17: for every base width ngf >= 1 and every input of input_nc channels *)
(* whose height and width are multiples of 256, forward completes; decoder *)
(* stage i of 1..7 receives the concatenation of the previous decoder      *)
(* output with the encoder feature x_(7-i), the two of equal spatial size; *)
(* every layer and every attention convolution receives its declared       *)
(* number of input channels; the output has output_nc channels at the      *)
(* input's spatial size.                                                   *)
(***************************************************************************)
ValidInput ==
    /\ g_x.c = g_conf.input_nc
    /\ g_x.h % 256 = 0
    /\ g_x.w % 256 = 0

EncoderFeature == <<"x0", "x1", "x2", "x3", "x4", "x5", "x6", "x7">>

C17_ShapesConsistent ==
    (g_status # "idle" /\ ValidInput) =>
        /\ g_status = "returned"
        /\ Len(g_cats) = 7
        /\ \A i \in 1..7 :
              /\ g_cats[i].stage = 7 + i
              /\ g_cats[i].skip = EncoderFeature[(7 - i) + 1]
              /\ g_cats[i].out.h = g_cats[i].feature.h
              /\ g_cats[i].out.w = g_cats[i].feature.w
              /\ g_convs[8 + i + 1].layer = 8 + i
              /\ g_convs[8 + i + 1].got = g_cats[i].out.c + g_cats[i].feature.c
        /\ Len(g_convs) = 16
        /\ \A n \in 1..16 : g_convs[n].layer = n - 1 /\ g_convs[n].got = g_convs[n].declared
        /\ Len(g_gates) = 3
        /\ \A a \in 1..3 : g_gates[a].got = g_gates[a].declared
        /\ g_outshape = [c |-> g_conf.output_nc, h |-> g_x.h, w |-> g_x.w]

\* a network of base width 3 run on an input that is not square
C17_Witness ==
    /\ g_status = "returned"
    /\ ValidInput
    /\ g_conf.ngf = 3
    /\ g_x.h # g_x.w
    /\ g_outshape.c = g_conf.output_nc
    /\ Len(g_cats) = 7

(***************************************************************************)
(* C15: across any sequence of forward calls on one OrgDiscriminator, for  *)
(* every global_stages, the global branch of every call is computed with   *)
(* an all-valid mask: the mask ratio a partial convolution of the global   *)
(* branch applies is never one derived from a foreground or background     *)
(* mask of the same or an earlier call.                                    *)
(***************************************************************************)
C15_GlobalBranchAllValid ==
    \A d \in 1..Len(d_global) : d_global[d].src = "all-valid"
====
